---- MODULE Spec2Model ----
(***************************************************************************)
(* Plan / usage accounting and exercise generation of MathSTK-Ex           *)
(* (src/main.py): the account records, the three module-level "latest"     *)
(* slots, and the request handlers that read and write them.               *)
(*                                                                         *)
(* Time is counted in whole days.  A dictionary key that is absent in the  *)
(* program ("plan", "plan_start", "usage_count") is modelled by NoPlan,    *)
(* NoStart and has_usage = FALSE.  Python's None is the record NoneVal.    *)
(***************************************************************************)
EXTENDS Integers, Sequences, FiniteSets, TLC

\* ------------------------------------------------------------------ bounds
MaxNow == 31        \* the clock stops advancing here
MaxReq == 3         \* requests served in one run of Spec / SpecConc
MaxOps == 1         \* largest nb_ops a request asks for
NLevels == 2        \* how many of the five tiers requests draw from
NThreads == 3       \* request threads in SpecConc
MaxDraw == 2        \* random.randint draws within this distance of either end of its range
MaxLen == 2         \* longest answer string submitted to /answers
MaxOperand == 2     \* submitted operands are in -1..MaxOperand
MaxQuestions == 40  \* most exercises in a form scored by /answers (10 of each operation)
NSlotThreads == 2   \* request threads in SpecSlots, SpecAct and SpecExpiry

\* ------------------------------------------------------- program constants
PlanDays == 30      \* timedelta(days=30)
TwentyLimit == 20   \* usage_count["total"] < 20
FreeLimit == 1      \* usage_count.get(level, 0) < 1

LevelSeq == <<"easy", "intermediate", "hard", "very hard", "expert">>
Levels == {LevelSeq[i] : i \in 1..Len(LevelSeq)}
UsageKeys == Levels \cup {"total"}
Operations == {"addition", "subtraction", "multiplication", "division"}

NoPlan == "none"
NoStart == -1
NoneVal == [none |-> TRUE]
Anonymous == "anonymous"

Accounts == {"alice", "bob"}

\* The order ids PayPal hands out; purchase_orders[o] = NoPlan: o is no key of
\* purchase_orders.
OrderIds == {"o1", "o2"}

\* ---------------------------------------------------------- request inputs
\* A form field that int() may or may not accept.
GoodInt(n) == [ok |-> TRUE, val |-> n]
BadInt == [ok |-> FALSE, val |-> 0]

\* The tiers requests draw from, then a key of usage_count that is no tier,
\* then a string that is neither.
ReqTiers == {LevelSeq[i] : i \in 1..(IF NLevels < Len(LevelSeq) THEN NLevels ELSE Len(LevelSeq))}
ReqLevels == ReqTiers \cup {"total", "bogus"}

Form(phase, level, category, nb_ops, pdf_columns) ==
    [phase |-> phase, level |-> level, category |-> category, nb_ops |-> nb_ops, pdf_columns |-> pdf_columns]

\* The forms POST / is sent: well-formed ones for one category and for "all",
\* and ones with one field wrong (its category, nb_ops or pdf_columns), or
\* asking for no exercise at all.
GenerateForms(levels) ==
    {Form("generate", l, c, GoodInt(n), GoodInt(3)) : l \in levels, c \in {"addition", "all"}, n \in 1..MaxOps}
    \cup {Form("generate", l, "bogus", GoodInt(1), GoodInt(3)) : l \in levels}
    \cup {Form("generate", l, "addition", BadInt, GoodInt(3)) : l \in levels}
    \cup {Form("generate", l, "addition", GoodInt(1), BadInt) : l \in levels}
    \cup {Form("generate", l, "addition", GoodInt(0), GoodInt(3)) : l \in levels}
PostForms == GenerateForms(ReqLevels) \cup {Form("other", "easy", "addition", GoodInt(1), GoodInt(3))}

TickSteps == {PlanDays - 1, PlanDays, PlanDays + 1}

VARIABLES users, now, latest_exercises, latest_meta, latest_result, purchase_orders, resp, th, reqs, since, call,
          drive

vars == <<users, now, latest_exercises, latest_meta, latest_result, purchase_orders, resp, th, reqs, since, call,
          drive>>
globals == <<latest_exercises, latest_meta, latest_result>>

\* ----------------------------------------------------------- account data
ZeroUsage == [k \in UsageKeys |-> 0]

\* users[email] right after register_route: no plan, no plan_start, no usage_count.
NewUser == [plan |-> NoPlan, plan_start |-> NoStart, has_usage |-> FALSE, usage_count |-> ZeroUsage]

\* user_data.setdefault("usage_count", {...all zero...})
SetDefaultUsage(u) == [u EXCEPT !.has_usage = TRUE]

\* usage_count.get(level, 0)
Get(uc, level) == IF level \in DOMAIN uc THEN uc[level] ELSE 0

\* -------------------------------------------------------------- persistence
\* drive is Google Drive as save_users() finds and leaves it: up (the upload
\* goes through), file (the users of users.json) and called (the latest
\* step called save_users).
\* save_users() where what the upload raises is not caught.
save_users_raising(d) == [written |-> d.up, exc |-> IF d.up THEN "none" ELSE "HttpError"]

\* save_users(): the whole body is in a try whose except clause logs the
\* error, so nothing is raised (exc); users.json is replaced (written) when
\* the upload goes through.
save_users(d) == [written |-> d.up, exc |-> "none"]

\* drive as a step leaves it: called, save_users() was reached; written, it
\* replaced users.json by us.
Persist(called, written, us) ==
    drive' = [up |-> drive.up, file |-> IF called /\ written THEN us ELSE drive.file, called |-> called]
NoSave == drive' = [drive EXCEPT !.called = FALSE]

\* ------------------------------------------------------ plan / usage tracker
\* Each returns the account record as the call leaves it, and the exception
\* the call ends with ("none": it returned).

\* can_use_plan with the free-plan comparison off by one.
can_use_plan_le(u, level) ==
    LET v == SetDefaultUsage(u) IN
    CASE u.plan = NoPlan    -> [user |-> v, exc |-> "KeyError", ret |-> FALSE]
      [] u.plan = "free"    -> [user |-> v, exc |-> "none", ret |-> Get(v.usage_count, level) <= FreeLimit]
      [] u.plan = "monthly" -> [user |-> v, exc |-> "none", ret |-> TRUE]
      [] u.plan = "twenty"  -> [user |-> v, exc |-> "none", ret |-> v.usage_count["total"] < TwentyLimit]
      [] OTHER              -> [user |-> v, exc |-> "none", ret |-> FALSE]

\* can_use_plan(email, level): usage_count is defaulted first, then
\* user_data["plan"] is read, which raises KeyError when the key is absent.
can_use_plan(u, level) ==
    LET v == SetDefaultUsage(u) IN
    CASE u.plan = NoPlan    -> [user |-> v, exc |-> "KeyError", ret |-> FALSE]
      [] u.plan = "free"    -> [user |-> v, exc |-> "none", ret |-> Get(v.usage_count, level) < FreeLimit]
      [] u.plan = "monthly" -> [user |-> v, exc |-> "none", ret |-> TRUE]
      [] u.plan = "twenty"  -> [user |-> v, exc |-> "none", ret |-> v.usage_count["total"] < TwentyLimit]
      [] OTHER              -> [user |-> v, exc |-> "none", ret |-> FALSE]

\* usage_count[key] += 1, a KeyError when the key is absent.
Bump(uc, key) == IF key \in DOMAIN uc THEN [uc EXCEPT ![key] = @ + 1] ELSE uc

\* track_usage where the free plan also counts against "total".
track_usage_total(u, level, d) ==
    LET v == SetDefaultUsage(u)
        t == [v EXCEPT !.usage_count = Bump(@, "total")]
    IN  CASE u.plan = NoPlan -> [user |-> v, exc |-> "KeyError", saved |-> FALSE, written |-> FALSE]
          [] u.plan \in {"free", "twenty"} ->
                IF level \in DOMAIN v.usage_count
                THEN [user |-> [t EXCEPT !.usage_count = Bump(@, level)], exc |-> save_users(d).exc, saved |-> TRUE, written |-> save_users(d).written]
                ELSE [user |-> t, exc |-> "KeyError", saved |-> FALSE, written |-> FALSE]
          [] OTHER -> [user |-> v, exc |-> save_users(d).exc, saved |-> TRUE, written |-> save_users(d).written]

\* track_usage that decrements the free plan's counter.
track_usage_down(u, level, d) ==
    LET v == SetDefaultUsage(u)
        t == [v EXCEPT !.usage_count = Bump(@, "total")]
    IN  CASE u.plan = NoPlan -> [user |-> v, exc |-> "KeyError", saved |-> FALSE, written |-> FALSE]
          [] u.plan = "free" ->
                IF level \in DOMAIN v.usage_count
                THEN [user |-> [v EXCEPT !.usage_count[level] = @ - 1], exc |-> save_users(d).exc, saved |-> TRUE, written |-> save_users(d).written]
                ELSE [user |-> v, exc |-> "KeyError", saved |-> FALSE, written |-> FALSE]
          [] u.plan = "twenty" ->
                IF level \in DOMAIN v.usage_count
                THEN [user |-> [t EXCEPT !.usage_count = Bump(@, level)], exc |-> save_users(d).exc, saved |-> TRUE, written |-> save_users(d).written]
                ELSE [user |-> t, exc |-> "KeyError", saved |-> FALSE, written |-> FALSE]
          [] OTHER -> [user |-> v, exc |-> save_users(d).exc, saved |-> TRUE, written |-> save_users(d).written]

\* track_usage(email, level, d).  Under "twenty" the total is incremented before
\* usage_count[level], so an unknown level leaves the total incremented; the
\* trailing save_users() is reached only when nothing raised.
track_usage(u, level, d) ==
    LET v == SetDefaultUsage(u)
        t == [v EXCEPT !.usage_count = Bump(@, "total")]
    IN  CASE u.plan = NoPlan -> [user |-> v, exc |-> "KeyError", saved |-> FALSE, written |-> FALSE]
          [] u.plan = "free" ->
                IF level \in DOMAIN v.usage_count
                THEN [user |-> [v EXCEPT !.usage_count = Bump(@, level)], exc |-> save_users(d).exc, saved |-> TRUE, written |-> save_users(d).written]
                ELSE [user |-> v, exc |-> "KeyError", saved |-> FALSE, written |-> FALSE]
          [] u.plan = "twenty" ->
                IF level \in DOMAIN v.usage_count
                THEN [user |-> [t EXCEPT !.usage_count = Bump(@, level)], exc |-> save_users(d).exc, saved |-> TRUE, written |-> save_users(d).written]
                ELSE [user |-> t, exc |-> "KeyError", saved |-> FALSE, written |-> FALSE]
          [] OTHER -> [user |-> v, exc |-> save_users(d).exc, saved |-> TRUE, written |-> save_users(d).written]

\* update_activation_after_payment that starts the counters afresh.
update_activation_reset(u, plan, t) ==
    CASE plan = "monthly" -> [u EXCEPT !.plan = "monthly", !.plan_start = t, !.usage_count = ZeroUsage]
      [] plan = "twenty"  -> [u EXCEPT !.plan = "twenty", !.usage_count = ZeroUsage]
      [] OTHER            -> u

\* update_activation_after_payment(plan) on the session's account at time t.
update_activation_after_payment(u, plan, t) ==
    CASE plan = "monthly" -> [u EXCEPT !.plan = "monthly", !.plan_start = t]
      [] plan = "twenty"  -> [u EXCEPT !.plan = "twenty"]
      [] OTHER            -> u

\* all(usage_count.get(lvl, 0) >= 1 for lvl in levels)
AllExhausted(uc) == \A lvl \in Levels : Get(uc, lvl) >= 1

\* --------------------------------------------------------------- generation
\* low, high of generate_exercise for addition and subtraction, for
\* multiplication, and b_low, b_high and q_low, q_high for division.
AddRange ==
    ("easy" :> <<0, 10>>) @@ ("intermediate" :> <<0, 50>>) @@ ("hard" :> <<0, 100>>)
    @@ ("very hard" :> <<0, 200>>) @@ ("expert" :> <<0, 1000000>>)
MulRange ==
    ("easy" :> <<0, 5>>) @@ ("intermediate" :> <<0, 10>>) @@ ("hard" :> <<0, 20>>)
    @@ ("very hard" :> <<0, 30>>) @@ ("expert" :> <<0, 1000>>)
DivisorRange ==
    ("easy" :> <<1, 5>>) @@ ("intermediate" :> <<1, 10>>) @@ ("hard" :> <<1, 20>>)
    @@ ("very hard" :> <<1, 30>>) @@ ("expert" :> <<1, 100>>)
QuotientRange ==
    ("easy" :> <<0, 5>>) @@ ("intermediate" :> <<0, 10>>) @@ ("hard" :> <<0, 20>>)
    @@ ("very hard" :> <<0, 30>>) @@ ("expert" :> <<0, 10000>>)

\* random.randint(low, high) returns any integer of low..high.  Which one is
\* given by k: low + k for k >= 0, high + k + 1 for k < 0 (-1 is high), kept
\* within low..high.  Offsets are the k of the draws within MaxDraw of
\* either end.
Offsets == (0 - MaxDraw - 1)..MaxDraw
randint(low, high, k) ==
    IF k >= 0
    THEN (IF low + k < high THEN low + k ELSE high)
    ELSE (IF high + k + 1 > low THEN high + k + 1 ELSE low)

\* len(str(n))
RECURSIVE StrLen(_)
StrLen(n) == IF n < 0 THEN 1 + StrLen(0 - n) ELSE IF n < 10 THEN 1 ELSE 1 + StrLen(n \div 10)

Exercise(a, b, op, result) == [a |-> a, b |-> b, op |-> op, result |-> result, res_len |-> StrLen(result)]

\* The branches of generate_exercise for a tier; k1 and k2 give the first and
\* the second random.randint.
Addition(level, k1, k2) ==
    LET low == AddRange[level][1]
        high == AddRange[level][2]
        a == randint(low, high, k1)
        b == randint(low, high, k2)
    IN  Exercise(a, b, "+", a + b)

\* The subtraction branch with b drawn like a.
Subtraction_any_b(level, k1, k2) ==
    LET low == AddRange[level][1]
        high == AddRange[level][2]
        a == randint(low, high, k1)
        b == randint(low, high, k2)
    IN  Exercise(a, b, "-", a - b)

Subtraction(level, k1, k2) ==
    LET low == AddRange[level][1]
        high == AddRange[level][2]
        a == randint(low, high, k1)
        b == randint(low, a, k2)
    IN  Exercise(a, b, "-", a - b)

\* The multiplication branch with the ranges of the addition.
Multiplication_wide(level, k1, k2) ==
    LET low == AddRange[level][1]
        high == AddRange[level][2]
        a == randint(low, high, k1)
        b == randint(low, high, k2)
    IN  Exercise(a, b, "×", a * b)

Multiplication(level, k1, k2) ==
    LET low == MulRange[level][1]
        high == MulRange[level][2]
        a == randint(low, high, k1)
        b == randint(low, high, k2)
    IN  Exercise(a, b, "×", a * b)

\* The division branch with the divisor drawn from 0 on.
Division_from_zero(level, k1, k2) ==
    LET b == randint(0, DivisorRange[level][2], k1)
        quotient == randint(QuotientRange[level][1], QuotientRange[level][2], k2)
    IN  Exercise(b * quotient, b, "÷", quotient)

Division(level, k1, k2) ==
    LET b == randint(DivisorRange[level][1], DivisorRange[level][2], k1)
        quotient == randint(QuotientRange[level][1], QuotientRange[level][2], k2)
    IN  Exercise(b * quotient, b, "÷", quotient)

\* generate_exercise(operation, level): a known operation with an unknown
\* level reads low/high before assignment (generate_raises); an unknown
\* operation falls through every branch and returns None.
generate_raises(operation, level) == operation \in Operations /\ level \notin Levels
generate_exercise(operation, level, k1, k2) ==
    CASE operation \notin Operations \/ level \notin Levels -> NoneVal
      [] operation = "addition" /\ level \in Levels -> Addition(level, k1, k2)
      [] operation = "subtraction" /\ level \in Levels -> Subtraction(level, k1, k2)
      [] operation = "multiplication" /\ level \in Levels -> Multiplication(level, k1, k2)
      [] OTHER -> Division(level, k1, k2)

\* The draws of a generate request in the specifications of the handlers:
\* every random.randint returns the upper end of its range.
PostDraws == {<<0 - 1, 0 - 1>>}

OperationsOf(category) == IF category = "all" THEN Operations ELSE {category}

\* FinishGenerate that keeps the exercises and the meta data of the first
\* generation.
FinishGenerate_first(level, category, nb_ops, pdf_columns, k, le, lm, lr) ==
    LET ops  == OperationsOf(category)
        n    == IF nb_ops.val > 0 THEN nb_ops.val ELSE 0
        meta == [level |-> level, selected_category |-> category,
                 nb_ops |-> nb_ops.val, pdf_columns |-> pdf_columns.val]
        exs  == [op \in ops |-> [i \in 1..n |-> generate_exercise(op, level, k[1], k[2])]]
    IN  IF ~nb_ops.ok \/ ~pdf_columns.ok
        THEN [le |-> le, lm |-> lm, lr |-> lr, outcome |-> "error", exc |-> "ValueError", generated |-> 0]
        ELSE [le |-> IF le = NoneVal THEN exs ELSE le, lm |-> IF lm = NoneVal THEN meta ELSE lm,
              lr |-> NoneVal, outcome |-> "exercises", exc |-> "none", generated |-> n * Cardinality(ops)]

\* Lines 1217-1242 of index_post, from the state of the three slots: the
\* slots as the handler leaves them and how the request ends.  int() raises
\* ValueError before anything is written; generate_exercise raises after
\* latest_meta is written; rendering a list of None raises after
\* latest_exercises is written.  k gives the draws of random.randint, the
\* same for every exercise of the request.  (The theme kept in latest_meta
\* is left out.)
FinishGenerate(level, category, nb_ops, pdf_columns, k, le, lm, lr) ==
    LET ops  == OperationsOf(category)
        n    == IF nb_ops.val > 0 THEN nb_ops.val ELSE 0
        meta == [level |-> level, selected_category |-> category,
                 nb_ops |-> nb_ops.val, pdf_columns |-> pdf_columns.val]
        exs  == [op \in ops |-> [i \in 1..n |-> generate_exercise(op, level, k[1], k[2])]]
    IN  IF ~nb_ops.ok \/ ~pdf_columns.ok
        THEN [le |-> le, lm |-> lm, lr |-> lr, outcome |-> "error", exc |-> "ValueError", generated |-> 0]
        ELSE IF n > 0 /\ \E op \in ops : generate_raises(op, level)
        THEN [le |-> le, lm |-> meta, lr |-> lr, outcome |-> "error", exc |-> "UnboundLocalError", generated |-> 0]
        ELSE IF n > 0 /\ \E op \in ops : op \notin Operations
        THEN [le |-> exs, lm |-> meta, lr |-> NoneVal, outcome |-> "error", exc |-> "UndefinedError", generated |-> 0]
        ELSE [le |-> exs, lm |-> meta, lr |-> NoneVal, outcome |-> "exercises", exc |-> "none",
              generated |-> n * Cardinality(ops)]

\* ------------------------------------------------------------------ grading
\* A string is a sequence of characters.  DigitVal gives the decimal digits.
DigitVal ==
    ("0" :> 0) @@ ("1" :> 1) @@ ("2" :> 2) @@ ("3" :> 3) @@ ("4" :> 4)
    @@ ("5" :> 5) @@ ("6" :> 6) @@ ("7" :> 7) @@ ("8" :> 8) @@ ("9" :> 9)
IsDigit(c) == c \in DOMAIN DigitVal

\* str.strip(), for the blank as the only whitespace.
RECURSIVE LStrip(_)
LStrip(str) == IF str # <<>> /\ Head(str) = " " THEN LStrip(Tail(str)) ELSE str
RECURSIVE RStrip(_)
RStrip(str) == IF str # <<>> /\ str[Len(str)] = " " THEN RStrip(SubSeq(str, 1, Len(str) - 1)) ELSE str
Strip(str) == RStrip(LStrip(str))

\* The value of a string of digits and underscores, read from the left.
RECURSIVE DigitsVal(_, _)
DigitsVal(str, acc) ==
    IF str = <<>> THEN acc
    ELSE IF Head(str) = "_" THEN DigitsVal(Tail(str), acc)
    ELSE DigitsVal(Tail(str), 10 * acc + DigitVal[Head(str)])

\* int(str): whitespace around is ignored, then an optional sign, then
\* decimal digits, single underscores allowed between two digits; anything
\* else raises ValueError (ok = FALSE).
ParseInt(str) ==
    LET t == Strip(str)
        signed == t # <<>> /\ Head(t) \in {"+", "-"}
        d == IF signed THEN Tail(t) ELSE t
        wellformed ==
            /\ d # <<>>
            /\ \A i \in 1..Len(d) : IsDigit(d[i]) \/ d[i] = "_"
            /\ IsDigit(d[1]) /\ IsDigit(d[Len(d)])
            /\ \A i \in 1..(Len(d) - 1) : ~(d[i] = "_" /\ d[i + 1] = "_")
    IN  IF ~wellformed THEN [ok |-> FALSE, val |-> 0]
        ELSE IF signed /\ Head(t) = "-" THEN [ok |-> TRUE, val |-> 0 - DigitsVal(d, 0)]
        ELSE [ok |-> TRUE, val |-> DigitsVal(d, 0)]

\* a // b of Python: the floor of the quotient, for either sign of b.
FloorDiv(a, b) == IF b > 0 THEN a \div b ELSE (0 - a) \div (0 - b)

\* request.form.get(key): None for an absent key, else the string.
Absent == [present |-> FALSE, str |-> <<>>]
Field(str) == [present |-> TRUE, str |-> str]

\* user_answer where a field that int() rejects counts as the answer 0.
UserAnswer_zero(field) ==
    IF ~field.present \/ Strip(field.str) = <<>> THEN [answered |-> FALSE, val |-> 0]
    ELSE LET p == ParseInt(field.str) IN [answered |-> TRUE, val |-> p.val]

\* user_answer of answers_route for the submitted field: "Not answered"
\* (answered = FALSE) when the field is absent, blank or no integer literal.
UserAnswer(field) ==
    IF ~field.present \/ Strip(field.str) = <<>> THEN [answered |-> FALSE, val |-> 0]
    ELSE LET p == ParseInt(field.str) IN [answered |-> p.ok, val |-> p.val]

\* correct that knows the multiplication and the division by their ASCII
\* symbols only.
Correct_ascii(a, b, op_symbol) ==
    CASE op_symbol = "+" -> [known |-> TRUE, val |-> a + b]
      [] op_symbol = "-" -> [known |-> TRUE, val |-> a - b]
      [] op_symbol = "*" -> [known |-> TRUE, val |-> a * b]
      [] op_symbol = "/" -> [known |-> TRUE, val |-> FloorDiv(a, b)]
      [] OTHER -> [known |-> FALSE, val |-> 0]

\* correct of answers_route: recomputed from the submitted operands and
\* operator; None (known = FALSE) for an operator that is none of the four.
Correct(a, b, op_symbol) ==
    CASE op_symbol = "+" -> [known |-> TRUE, val |-> a + b]
      [] op_symbol = "-" -> [known |-> TRUE, val |-> a - b]
      [] op_symbol \in {"*", "×"} -> [known |-> TRUE, val |-> a * b]
      [] op_symbol \in {"/", "÷"} -> [known |-> TRUE, val |-> FloorDiv(a, b)]
      [] OTHER -> [known |-> FALSE, val |-> 0]

\* One round of the inner loop of answers_route (lines 1528-1557) for the
\* submitted entry e = [a, b, op, answer]: the exception it ends with, or the
\* feedback item appended.  int() of an operand field that is no integer
\* raises ValueError; a // b with b = 0 raises ZeroDivisionError.
Grade(e) ==
    LET ua == UserAnswer(e.answer)
        c == Correct(e.a.val, e.b.val, e.op)
        item(verdict, correct) ==
            [a |-> e.a.val, op |-> e.op, b |-> e.b.val, answered |-> ua.answered, answer |-> ua.val,
             verdict |-> verdict, expected |-> c, correct |-> correct]
    IN  CASE ~e.a.ok \/ ~e.b.ok -> [exc |-> "ValueError", item |-> NoneVal]
          [] e.a.ok /\ e.b.ok /\ e.op \in {"/", "÷"} /\ e.b.val = 0 ->
                [exc |-> "ZeroDivisionError", item |-> NoneVal]
          [] OTHER ->
                IF ~ua.answered THEN [exc |-> "none", item |-> item("Not answered", FALSE)]
                ELSE IF c.known /\ ua.val = c.val THEN [exc |-> "none", item |-> item("Well done", TRUE)]
                ELSE [exc |-> "none", item |-> item("Try again", FALSE)]

\* ------------------------------------------------------------------- state
\* resp is the response to the request served by the latest step (NoResp after
\* a step that serves none): which route, for which session, how it ended,
\* what can_use_plan answered ("n/a": not called), how many times track_usage
\* was called and how many exercises were generated.
Resp(route, user, level, outcome, exc, auth, tracked, generated) ==
    [route |-> route, user |-> user, level |-> level, outcome |-> outcome, exc |-> exc,
     auth |-> auth, tracked |-> tracked, generated |-> generated]
NoResp == Resp("none", Anonymous, "", "none", "none", "n/a", 0, 0)

\* call is the latest call of generate_exercise made on its own, or the latest
\* /answers served: the arguments and what came back (NoCall: none was made).
NoCall == [fn |-> "none"]

Threads == 1..NThreads
Idle == [pc |-> "idle", user |-> Anonymous, level |-> "", category |-> "",
         nb_ops |-> BadInt, pdf_columns |-> BadInt, auth |-> "n/a", tracked |-> 0]

\* users = load_users() of a fresh deployment with its accounts registered;
\* latest_exercises = latest_meta = latest_result = None.
Init ==
    /\ users = [a \in Accounts |-> NewUser]
    /\ now = 0
    /\ latest_exercises = NoneVal
    /\ latest_meta = NoneVal
    /\ latest_result = NoneVal
    /\ purchase_orders = [o \in OrderIds |-> NoPlan]
    /\ resp = NoResp
    /\ th = [t \in Threads |-> Idle]
    /\ reqs = 0
    /\ since = [a \in Accounts |-> 0]
    /\ call = NoCall
    /\ drive = [up |-> TRUE, file |-> [a \in Accounts |-> NewUser], called |-> FALSE]

Total(u) == u.usage_count["total"]

\* since[a]: by how much usage_count["total"] of a has grown since a's latest
\* activation of the "twenty" plan (history only; nothing reads it).
SinceAfter(a, u, activated) ==
    [since EXCEPT ![a] = IF activated THEN 0 ELSE @ + (Total(u) - Total(users[a]))]

\* reqs counts the requests served, up to MaxReq; a run that starts with
\* reqs = Unmetered serves any number of them.
Unmetered == 0 - 1
Budget == IF reqs = Unmetered THEN UNCHANGED reqs ELSE reqs < MaxReq /\ reqs' = reqs + 1

\* ------------------------------------------------- handlers, run to the end
\* GET / with the expiry comparison off by one.
index_get_ge(u, t) ==
    CASE u.plan = NoPlan ->
            [user |-> u, outcome |-> "redirect:/choose_plan", exc |-> "none", saved |-> FALSE]
      [] u.plan = "monthly" /\ u.plan_start = NoStart ->
            [user |-> u, outcome |-> "error", exc |-> "KeyError", saved |-> FALSE]
      [] u.plan = "monthly" /\ t >= u.plan_start + PlanDays ->
            [user |-> [u EXCEPT !.plan = NoPlan, !.plan_start = NoStart],
             outcome |-> "redirect:/choose_plan", exc |-> "none", saved |-> TRUE]
      [] u.plan = "free" /\ AllExhausted(u.usage_count) ->
            [user |-> SetDefaultUsage(u), outcome |-> "redirect:/choose_plan", exc |-> "none", saved |-> FALSE]
      [] OTHER ->
            [user |-> SetDefaultUsage(u), outcome |-> "selection", exc |-> "none", saved |-> FALSE]

\* GET /
index_get(u, t) ==
    CASE u.plan = NoPlan ->
            [user |-> u, outcome |-> "redirect:/choose_plan", exc |-> "none", saved |-> FALSE]
      [] u.plan = "monthly" /\ u.plan_start = NoStart ->
            [user |-> u, outcome |-> "error", exc |-> "KeyError", saved |-> FALSE]
      [] u.plan = "monthly" /\ t > u.plan_start + PlanDays ->
            [user |-> [u EXCEPT !.plan = NoPlan, !.plan_start = NoStart],
             outcome |-> "redirect:/choose_plan", exc |-> "none", saved |-> TRUE]
      [] u.plan = "free" /\ AllExhausted(u.usage_count) ->
            [user |-> SetDefaultUsage(u), outcome |-> "redirect:/choose_plan", exc |-> "none", saved |-> FALSE]
      [] OTHER ->
            [user |-> SetDefaultUsage(u), outcome |-> "selection", exc |-> "none", saved |-> FALSE]

IndexGet(s) ==
    /\ Budget
    /\ IF s = Anonymous
       THEN /\ resp' = Resp("index_get", s, "", "landing", "none", "n/a", 0, 0)
            /\ UNCHANGED <<users, since>>
            /\ NoSave
       ELSE LET r == index_get(users[s], now) IN
            /\ users' = [users EXCEPT ![s] = r.user]
            /\ since' = SinceAfter(s, r.user, FALSE)
            /\ resp' = Resp("index_get", s, "", r.outcome, r.exc, "n/a", 0, 0)
            /\ Persist(r.saved, save_users(drive).written, users')
    /\ UNCHANGED <<purchase_orders, now, globals, th, call>>

\* index_post with track_usage called inside the loop over the operations.
index_post_per_op(u, level, category, nb_ops, pdf_columns, draw, le, lm, lr, d) ==
    LET c == can_use_plan(u, level)
        n == Cardinality(OperationsOf(category))
        k1 == track_usage(c.user, level, d)
        k2 == track_usage(k1.user, level, d)
        k3 == track_usage(k2.user, level, d)
        k4 == track_usage(k3.user, level, d)
        k == IF n = 1 THEN k1 ELSE k4
        f == FinishGenerate(level, category, nb_ops, pdf_columns, draw, le, lm, lr)
        keep == [le |-> le, lm |-> lm, lr |-> lr]
    IN  CASE c.exc # "none" ->
               [user |-> c.user, slots |-> keep, outcome |-> "error", exc |-> c.exc,
                auth |-> "KeyError", tracked |-> 0, generated |-> 0,
                saved |-> FALSE, written |-> FALSE]
          [] c.exc = "none" /\ ~c.ret ->
               [user |-> c.user, slots |-> keep, outcome |-> "redirect:/", exc |-> "none",
                auth |-> "False", tracked |-> 0, generated |-> 0,
                saved |-> FALSE, written |-> FALSE]
          [] c.exc = "none" /\ c.ret /\ k.exc # "none" ->
               [user |-> k.user, slots |-> keep, outcome |-> "error", exc |-> k.exc,
                auth |-> "True", tracked |-> n, generated |-> 0,
                saved |-> k.saved, written |-> k.written]
          [] OTHER ->
               [user |-> k.user, slots |-> [le |-> f.le, lm |-> f.lm, lr |-> f.lr],
                outcome |-> f.outcome, exc |-> f.exc,
                auth |-> "True", tracked |-> n, generated |-> f.generated,
                saved |-> k.saved, written |-> k.written]

\* index_post that records the usage before it looks at can_use_plan's answer.
index_post_charge_refused(u, level, category, nb_ops, pdf_columns, draw, le, lm, lr, d) ==
    LET c == can_use_plan(u, level)
        k == track_usage(c.user, level, d)
        f == FinishGenerate(level, category, nb_ops, pdf_columns, draw, le, lm, lr)
        keep == [le |-> le, lm |-> lm, lr |-> lr]
    IN  CASE c.exc # "none" ->
               [user |-> c.user, slots |-> keep, outcome |-> "error", exc |-> c.exc,
                auth |-> "KeyError", tracked |-> 0, generated |-> 0,
                saved |-> FALSE, written |-> FALSE]
          [] c.exc = "none" /\ ~c.ret ->
               [user |-> k.user, slots |-> keep, outcome |-> "redirect:/", exc |-> "none",
                auth |-> "False", tracked |-> 1, generated |-> 0,
                saved |-> k.saved, written |-> k.written]
          [] c.exc = "none" /\ c.ret /\ k.exc # "none" ->
               [user |-> k.user, slots |-> keep, outcome |-> "error", exc |-> k.exc,
                auth |-> "True", tracked |-> 1, generated |-> 0,
                saved |-> k.saved, written |-> k.written]
          [] OTHER ->
               [user |-> k.user, slots |-> [le |-> f.le, lm |-> f.lm, lr |-> f.lr],
                outcome |-> f.outcome, exc |-> f.exc,
                auth |-> "True", tracked |-> 1, generated |-> f.generated,
                saved |-> k.saved, written |-> k.written]

\* POST / with phase=generate, for an account that has a plan.
index_post(u, level, category, nb_ops, pdf_columns, draw, le, lm, lr, d) ==
    LET c == can_use_plan(u, level)
        k == track_usage(c.user, level, d)
        f == FinishGenerate(level, category, nb_ops, pdf_columns, draw, le, lm, lr)
        keep == [le |-> le, lm |-> lm, lr |-> lr]
    IN  CASE c.exc # "none" ->
               [user |-> c.user, slots |-> keep, outcome |-> "error", exc |-> c.exc,
                auth |-> "KeyError", tracked |-> 0, generated |-> 0,
                saved |-> FALSE, written |-> FALSE]
          [] c.exc = "none" /\ ~c.ret ->
               [user |-> c.user, slots |-> keep, outcome |-> "redirect:/", exc |-> "none",
                auth |-> "False", tracked |-> 0, generated |-> 0,
                saved |-> FALSE, written |-> FALSE]
          [] c.exc = "none" /\ c.ret /\ k.exc # "none" ->
               [user |-> k.user, slots |-> keep, outcome |-> "error", exc |-> k.exc,
                auth |-> "True", tracked |-> 1, generated |-> 0,
                saved |-> k.saved, written |-> k.written]
          [] OTHER ->
               [user |-> k.user, slots |-> [le |-> f.le, lm |-> f.lm, lr |-> f.lr],
                outcome |-> f.outcome, exc |-> f.exc,
                auth |-> "True", tracked |-> 1, generated |-> f.generated,
                saved |-> k.saved, written |-> k.written]

IndexPostDrawn(s, phase, level, category, nb_ops, pdf_columns, draws) ==
    /\ Budget
    /\ IF s = Anonymous
       THEN /\ resp' = Resp("index_post", s, level, "redirect:/login", "none", "n/a", 0, 0)
            /\ UNCHANGED <<users, since, globals>>
            /\ NoSave
       ELSE IF users[s].plan = NoPlan
       THEN /\ resp' = Resp("index_post", s, level, "redirect:/choose_plan", "none", "n/a", 0, 0)
            /\ UNCHANGED <<users, since, globals>>
            /\ NoSave
       ELSE IF phase # "generate"
       THEN /\ resp' = Resp("index_post", s, level, "redirect:/", "none", "n/a", 0, 0)
            /\ UNCHANGED <<users, since, globals>>
            /\ NoSave
       ELSE \E draw \in draws :
            \E r \in {index_post(users[s], level, category, nb_ops, pdf_columns, draw,
                               latest_exercises, latest_meta, latest_result, drive)} :
            /\ users' = [users EXCEPT ![s] = r.user]
            /\ since' = SinceAfter(s, r.user, FALSE)
            /\ latest_exercises' = r.slots.le
            /\ latest_meta' = r.slots.lm
            /\ latest_result' = r.slots.lr
            /\ resp' = Resp("index_post", s, level, r.outcome, r.exc, r.auth, r.tracked, r.generated)
            /\ Persist(r.saved, r.written, users')
    /\ UNCHANGED <<purchase_orders, now, th, call>>

\* POST / with every random.randint at the upper end of its range.
IndexPost(s, phase, level, category, nb_ops, pdf_columns) ==
    IndexPostDrawn(s, phase, level, category, nb_ops, pdf_columns, PostDraws)

\* /choose_plan
choose_plan(u, method, plan) ==
    LET free_disabled == u.has_usage /\ AllExhausted(u.usage_count) IN
    CASE method # "POST" -> [user |-> u, outcome |-> "choose_plan", saved |-> FALSE]
      [] method = "POST" /\ plan \in {"monthly", "twenty"} ->
            [user |-> u, outcome |-> "redirect:/purchase_plan", saved |-> FALSE]
      [] method = "POST" /\ plan # "free" /\ plan \notin {"monthly", "twenty"} ->
            [user |-> u, outcome |-> "choose_plan", saved |-> FALSE]
      [] method = "POST" /\ plan = "free" /\ free_disabled ->
            [user |-> u, outcome |-> "choose_plan", saved |-> FALSE]
      [] OTHER -> [user |-> SetDefaultUsage([u EXCEPT !.plan = plan]), outcome |-> "redirect:/", saved |-> TRUE]

ChoosePlan(s, method, plan) ==
    /\ Budget
    /\ IF s = Anonymous
       THEN /\ resp' = Resp("choose_plan", s, "", "redirect:/login", "none", "n/a", 0, 0)
            /\ UNCHANGED <<users, since>>
            /\ NoSave
       ELSE LET r == choose_plan(users[s], method, plan) IN
            /\ users' = [users EXCEPT ![s] = r.user]
            /\ since' = SinceAfter(s, r.user, FALSE)
            /\ resp' = Resp("choose_plan", s, "", r.outcome, "none", "n/a", 0, 0)
            /\ Persist(r.saved, save_users(drive).written, users')
    /\ UNCHANGED <<purchase_orders, now, globals, th, call>>

\* /activate_key: key is the plan the submitted key is valid for today, or
\* "invalid" when it matches neither expected key.
ActivateKey(s, key) ==
    /\ Budget
    /\ IF s = Anonymous
       THEN /\ resp' = Resp("activate_key", s, "", "redirect:/login", "none", "n/a", 0, 0)
            /\ UNCHANGED <<users, since>>
            /\ NoSave
       ELSE IF key \in {"monthly", "twenty"}
       THEN LET u == update_activation_after_payment(users[s], key, now) IN
            /\ users' = [users EXCEPT ![s] = u]
            /\ since' = SinceAfter(s, u, key = "twenty")
            /\ resp' = Resp("activate_key", s, key, "redirect:/", "none", "n/a", 0, 0)
            /\ Persist(TRUE, save_users(drive).written, users')
       ELSE /\ resp' = Resp("activate_key", s, key, "redirect:/activation", "none", "n/a", 0, 0)
            /\ UNCHANGED <<users, since>>
            /\ NoSave
    /\ UNCHANGED <<purchase_orders, now, globals, th, call>>

\* ------------------------------------------------------------------ payment
\* purchase_orders.get(order_id)
OrderPlan(order_id) == IF order_id \in OrderIds THEN purchase_orders[order_id] ELSE NoPlan

\* /purchase_plan/<plan>: created is what create_paypal_order comes back
\* with, the id of a new order or "failed" when it raises.
PurchasePlan(s, plan, created) ==
    /\ Budget
    /\ created \in OrderIds => purchase_orders[created] = NoPlan
    /\ IF s = Anonymous
       THEN /\ resp' = Resp("purchase_plan", s, plan, "redirect:/login", "none", "n/a", 0, 0)
            /\ UNCHANGED purchase_orders
       ELSE IF plan \notin {"monthly", "twenty"}
       THEN /\ resp' = Resp("purchase_plan", s, plan, "400:Invalid plan", "none", "n/a", 0, 0)
            /\ UNCHANGED purchase_orders
       ELSE IF created \notin OrderIds
       THEN /\ resp' = Resp("purchase_plan", s, plan, "text:Error", "none", "n/a", 0, 0)
            /\ UNCHANGED purchase_orders
       ELSE /\ resp' = Resp("purchase_plan", s, plan, "redirect:approval", "none", "n/a", 0, 0)
            /\ purchase_orders' = [purchase_orders EXCEPT ![created] = plan]
    /\ NoSave
    /\ UNCHANGED <<users, now, globals, th, since, call>>

\* paypal_success that activates the plan of the order whatever the capture
\* reported.
paypal_success_uncaptured(s, token, success) ==
    LET plan == OrderPlan(token) IN
    CASE token = "" -> [activate |-> NoPlan, outcome |-> "text:Missing token", exc |-> "none"]
      [] token # "" /\ plan = NoPlan ->
            [activate |-> NoPlan, outcome |-> "flash:unknown plan", exc |-> "none"]
      [] token # "" /\ plan # NoPlan /\ s = Anonymous ->
            [activate |-> NoPlan, outcome |-> "error", exc |-> "KeyError"]
      [] OTHER -> [activate |-> plan, outcome |-> "flash:validated", exc |-> "none"]

\* /paypal_success?token=...: success is what capture_paypal_order returns
\* (True only for a 200/201 answer whose status is COMPLETED).  activate is
\* the plan update_activation_after_payment is called with, NoPlan when it
\* is not called; the call reads session["user"], a KeyError without session.
paypal_success(s, token, success) ==
    LET plan == OrderPlan(token) IN
    CASE token = "" -> [activate |-> NoPlan, outcome |-> "text:Missing token", exc |-> "none"]
      [] token # "" /\ ~success ->
            [activate |-> NoPlan, outcome |-> "flash:not completed", exc |-> "none"]
      [] token # "" /\ success /\ plan = NoPlan ->
            [activate |-> NoPlan, outcome |-> "flash:unknown plan", exc |-> "none"]
      [] token # "" /\ success /\ plan # NoPlan /\ s = Anonymous ->
            [activate |-> NoPlan, outcome |-> "error", exc |-> "KeyError"]
      [] OTHER -> [activate |-> plan, outcome |-> "flash:validated", exc |-> "none"]

PaypalSuccess(s, token, success) ==
    /\ Budget
    /\ LET r == paypal_success(s, token, success) IN
       /\ resp' = Resp("paypal_success", s, token, r.outcome, r.exc, "n/a", 0, 0)
       /\ IF r.activate = NoPlan
          THEN UNCHANGED <<users, since>> /\ NoSave
          ELSE LET u == update_activation_after_payment(users[s], r.activate, now) IN
               /\ users' = [users EXCEPT ![s] = u]
               /\ since' = SinceAfter(s, u, r.activate = "twenty")
               /\ Persist(TRUE, save_users(drive).written, users')
    /\ UNCHANGED <<purchase_orders, now, globals, th, call>>

\* /paypal_cancel
PaypalCancel(s) ==
    /\ Budget
    /\ resp' = Resp("paypal_cancel", s, "", "flash:cancelled", "none", "n/a", 0, 0)
    /\ NoSave
    /\ UNCHANGED <<users, purchase_orders, now, globals, th, since, call>>

\* Python's float is the IEEE 754 double: 53 significant bits, every
\* operation rounded to the nearest, a tie to the even one.  A float >= 0 is
\* kept as [bits, exp]: the binary digits of an integer, most significant
\* first, and the power of two it is scaled by.
Mantissa == 53

RECURSIVE Pow2(_)
Pow2(k) == IF k = 0 THEN 1 ELSE 2 * Pow2(k - 1)
Zeros(n) == [i \in 1..n |-> 0]
\* The integer n < 2^width as width binary digits, and back.
IntToBits(n, width) == [i \in 1..width |-> (n \div Pow2(width - i)) % 2]
RECURSIVE ToInt(_, _)
ToInt(bits, acc) == IF bits = <<>> THEN acc ELSE ToInt(Tail(bits), 2 * acc + Head(bits))
StripZeros(bits) ==
    IF \A i \in 1..Len(bits) : bits[i] = 0 THEN <<0>>
    ELSE SubSeq(bits, CHOOSE i \in 1..Len(bits) : bits[i] = 1 /\ \A j \in 1..(i - 1) : bits[j] = 0,
                Len(bits))

\* bits + 1
Increment(bits) ==
    IF \A i \in 1..Len(bits) : bits[i] = 1 THEN <<1>> \o Zeros(Len(bits))
    ELSE LET last == CHOOSE i \in 1..Len(bits) :
                         bits[i] = 0 /\ \A j \in (i + 1)..Len(bits) : bits[j] = 1
         IN  [i \in 1..Len(bits) |-> IF i < last THEN bits[i] ELSE IF i = last THEN 1 ELSE 0]

\* bits * 100, by limbs of 18 binary digits
Times100(bits) ==
    LET limb == 18
        padded == Zeros(3 * limb - Len(bits)) \o bits
        low == 100 * ToInt(SubSeq(padded, 2 * limb + 1, 3 * limb), 0)
        mid == 100 * ToInt(SubSeq(padded, limb + 1, 2 * limb), 0) + low \div Pow2(limb)
        high == 100 * ToInt(SubSeq(padded, 1, limb), 0) + mid \div Pow2(limb)
    IN  IntToBits(high, limb + 7) \o IntToBits(mid % Pow2(limb), limb)
            \o IntToBits(low % Pow2(limb), limb)

\* The first n of the bits, rounded to the nearest by the bits dropped
\* (sticky: more was dropped before), a tie to the even.
RoundBits(bits, n, sticky) ==
    LET kept == SubSeq(bits, 1, n)
        guard == bits[n + 1]
        more == sticky \/ \E i \in (n + 2)..Len(bits) : bits[i] = 1
    IN  IF guard = 1 /\ (more \/ kept[n] = 1) THEN Increment(kept) ELSE kept

\* The float x rounded to Mantissa significant bits.
RoundFloat(x, sticky) ==
    LET bits == StripZeros(x.bits) IN
    IF Len(bits) <= Mantissa THEN [bits |-> bits, exp |-> x.exp]
    ELSE [bits |-> RoundBits(bits, Mantissa, sticky), exp |-> x.exp + (Len(bits) - Mantissa)]

\* The binary digits of r / t behind the point, n of them, for 0 <= r < t,
\* 16 digits at a time, and whether anything of r is left after them.
RECURSIVE DivBits(_, _, _)
DivBits(r, t, n) ==
    IF n = 0 THEN <<>>
    ELSE LET w == IF n < 16 THEN n ELSE 16
         IN  IntToBits((r * Pow2(w)) \div t, w) \o DivBits((r * Pow2(w)) % t, t, n - w)
RECURSIVE DivRest(_, _, _)
DivRest(r, t, n) ==
    IF n = 0 THEN r
    ELSE LET w == IF n < 16 THEN n ELSE 16
         IN  DivRest((r * Pow2(w)) % t, t, n - w)

\* The least k with c * 2^k >= t, from k on.
RECURSIVE Scale(_, _, _)
Scale(c, t, k) == IF c >= t THEN k ELSE Scale(2 * c, t, k + 1)

\* c / t for integers 0 < c <= t
FloatDiv(c, t) ==
    LET k == Scale(c, t, 0)
        r == c * Pow2(k) - t
    IN  RoundFloat([bits |-> <<1>> \o DivBits(r, t, Mantissa), exp |-> 0 - Mantissa - k],
                   DivRest(r, t, Mantissa) # 0)

\* x * 100
FloatTimes100(x) == RoundFloat([bits |-> Times100(x.bits), exp |-> x.exp], FALSE)

\* round(x) for a float x >= 0: the nearest integer, a tie to the even one.
Round(x) ==
    IF x.exp >= 0 THEN ToInt(x.bits, 0) * Pow2(x.exp)
    ELSE LET d == 0 - x.exp
             bits == IF Len(x.bits) > d THEN x.bits ELSE Zeros(d + 1 - Len(x.bits)) \o x.bits
         IN  ToInt(RoundBits(bits, Len(bits) - d, FALSE), 0)

\* score of answers_route (line 1558):
\* round((total_correct / total_questions) * 100) if total_questions > 0 else 0
Score(total_correct, total_questions) ==
    IF total_questions > 0 /\ total_correct > 0
    THEN Round(FloatTimes100(FloatDiv(total_correct, total_questions)))
    ELSE 0

\* operations of answers_route (lines 1519-1522), and the entries the form
\* holds for an operation: entry i is the fields {op}_{i}_a, {op}_{i}_b,
\* {op}_{i}_op and {op}_{i}.
OpSeq(selected_category) ==
    IF selected_category = "all"
    THEN <<"addition", "subtraction", "multiplication", "division">>
    ELSE <<selected_category>>
EntriesOf(form, op) == IF op \in DOMAIN form.entries THEN form.entries[op] ELSE <<>>

\* The rounds of the two loops of answers_route, in the order they are run.
RECURSIVE GradeOps(_, _)
GradeOps(form, ops) ==
    IF ops = <<>> THEN <<>>
    ELSE [i \in 1..Len(EntriesOf(form, Head(ops))) |-> Grade(EntriesOf(form, Head(ops))[i])]
         \o GradeOps(form, Tail(ops))

\* The exercises of latest_exercises hold a None.
HoldsNone(le) == \E op \in DOMAIN le : \E i \in 1..Len(le[op]) : le[op][i] = NoneVal

\* solutions of answers_route (lines 1559-1564)
Solutions(le) ==
    [op \in DOMAIN le |->
        [i \in 1..Len(le[op]) |->
            [question |-> <<le[op][i].a, le[op][i].op, le[op][i].b>>, solution |-> le[op][i].result]]]

\* answers_route that takes the result kept in latest_exercises, where there
\* is one, for the expected value.
answers_route_stored(form, le, lm, lr) ==
    LET ops == OpSeq(form.selected_category)
        stored(op, i) == op \in DOMAIN le /\ i <= Len(le[op])
        regrade(op, i) ==
            LET g == Grade(EntriesOf(form, op)[i]) IN
            IF g.exc # "none" \/ ~stored(op, i) THEN g
            ELSE LET ok == g.item.answered /\ g.item.answer = le[op][i].result IN
                 [g EXCEPT !.item.correct = ok,
                           !.item.verdict = IF ~g.item.answered THEN "Not answered"
                                            ELSE IF ok THEN "Well done" ELSE "Try again"]
        g == GradeOps(form, ops)
        raised == {i \in 1..Len(g) : g[i].exc # "none"}
        feedback == [op \in {ops[j] : j \in 1..Len(ops)} |->
                        [i \in 1..Len(EntriesOf(form, op)) |-> regrade(op, i).item]]
        total_correct == Cardinality({<<op, i>> \in {ops[j] : j \in 1..Len(ops)} \X (1..Len(g)) :
                                         i <= Len(EntriesOf(form, op)) /\ feedback[op][i].correct})
        score == Score(total_correct, Len(g))
    IN  CASE le = NoneVal \/ lm = NoneVal ->
               [lr |-> lr, outcome |-> "redirect:/", exc |-> "none", feedback |-> NoneVal, score |-> 0]
          [] le # NoneVal /\ lm # NoneVal /\ raised # {} ->
               [lr |-> lr, outcome |-> "error", exc |-> g[CHOOSE i \in raised : \A j \in raised : i <= j].exc,
                feedback |-> NoneVal, score |-> 0]
          [] le # NoneVal /\ lm # NoneVal /\ raised = {} /\ HoldsNone(le) ->
               [lr |-> lr, outcome |-> "error", exc |-> "TypeError", feedback |-> NoneVal, score |-> 0]
          [] OTHER ->
               [lr |-> [feedback |-> feedback, solutions |-> Solutions(le), score |-> score,
                        theme |-> form.theme, level |-> lm.level,
                        selected_category |-> lm.selected_category,
                        exercises |-> le, pdf_columns |-> lm.pdf_columns],
                outcome |-> "result", exc |-> "none", feedback |-> feedback, score |-> score]

\* POST /answers of a logged-in session (lines 1510-1580): the redirection
\* when no exercise is in progress, else the feedback and the score computed
\* from the form, the solutions read from latest_exercises (a TypeError for
\* an exercise that is None), and latest_result as it is left.
answers_route(form, le, lm, lr) ==
    LET ops == OpSeq(form.selected_category)
        g == GradeOps(form, ops)
        raised == {i \in 1..Len(g) : g[i].exc # "none"}
        feedback == [op \in {ops[j] : j \in 1..Len(ops)} |->
                        [i \in 1..Len(EntriesOf(form, op)) |-> Grade(EntriesOf(form, op)[i]).item]]
        total_correct == Cardinality({i \in 1..Len(g) : g[i].item.correct})
        score == Score(total_correct, Len(g))
    IN  CASE le = NoneVal \/ lm = NoneVal ->
               [lr |-> lr, outcome |-> "redirect:/", exc |-> "none", feedback |-> NoneVal, score |-> 0]
          [] le # NoneVal /\ lm # NoneVal /\ raised # {} ->
               [lr |-> lr, outcome |-> "error", exc |-> g[CHOOSE i \in raised : \A j \in raised : i <= j].exc,
                feedback |-> NoneVal, score |-> 0]
          [] le # NoneVal /\ lm # NoneVal /\ raised = {} /\ HoldsNone(le) ->
               [lr |-> lr, outcome |-> "error", exc |-> "TypeError", feedback |-> NoneVal, score |-> 0]
          [] OTHER ->
               [lr |-> [feedback |-> feedback, solutions |-> Solutions(le), score |-> score,
                        theme |-> form.theme, level |-> lm.level,
                        selected_category |-> lm.selected_category,
                        exercises |-> le, pdf_columns |-> lm.pdf_columns],
                outcome |-> "result", exc |-> "none", feedback |-> feedback, score |-> score]

\* /answers; call keeps the form and what was answered.
Answers(s, form) ==
    /\ Budget
    /\ IF s = Anonymous
       THEN /\ resp' = Resp("answers", s, "", "redirect:/login", "none", "n/a", 0, 0)
            /\ UNCHANGED <<latest_result, call>>
       ELSE \E r \in {answers_route(form, latest_exercises, latest_meta, latest_result)} :
            /\ latest_result' = r.lr
            /\ resp' = Resp("answers", s, "", r.outcome, r.exc, "n/a", 0, 0)
            /\ call' = [fn |-> "answers_route", form |-> form, outcome |-> r.outcome, exc |-> r.exc,
                        feedback |-> r.feedback, score |-> r.score]
    /\ NoSave
    /\ UNCHANGED <<users, now, latest_exercises, latest_meta, purchase_orders, th, since>>

\* session.get("theme", "blue") of index_post (line 1218), kept in latest_meta
DefaultTheme == "blue"

\* /generate_pdf (lines 1410-1503) from the three slots and the Drive:
\* latest_result as it is left, how the request ends, and the exercises and
\* solutions printed.  Without a latest_result one is built from
\* latest_exercises and latest_meta (400 when either is missing; a TypeError
\* for an exercise that is None); pdf_columns is read from latest_meta and
\* divides the page width; the upload to Drive is not guarded.
generate_pdf_route(le, lm, lr, d) ==
    LET built == [feedback |-> <<>>, solutions |-> Solutions(le), score |-> 0, theme |-> DefaultTheme,
                  level |-> lm.level, selected_category |-> lm.selected_category,
                  exercises |-> le, pdf_columns |-> lm.pdf_columns]
        r == IF lr = NoneVal THEN built ELSE lr
        fault(result, exc) ==
            [lr |-> result, outcome |-> "error", exc |-> exc, exercises |-> NoneVal, solutions |-> NoneVal]
    IN  CASE lr = NoneVal /\ (le = NoneVal \/ lm = NoneVal) ->
               [lr |-> lr, outcome |-> "400", exc |-> "none", exercises |-> NoneVal, solutions |-> NoneVal]
          [] lr = NoneVal /\ le # NoneVal /\ lm # NoneVal /\ HoldsNone(le) -> fault(lr, "TypeError")
          [] OTHER ->
               IF lm.pdf_columns = 0 THEN fault(r, "ZeroDivisionError")
               ELSE IF ~d.up THEN fault(r, "HttpError")
               ELSE [lr |-> r, outcome |-> "pdf", exc |-> "none",
                     exercises |-> r.exercises, solutions |-> r.solutions]

\* /generate_pdf, which asks for no login; call keeps what was printed.
GeneratePdf(s) ==
    /\ Budget
    /\ \E r \in {generate_pdf_route(latest_exercises, latest_meta, latest_result, drive)} :
          /\ latest_result' = r.lr
          /\ resp' = Resp("generate_pdf", s, "", r.outcome, r.exc, "n/a", 0, 0)
          /\ call' = [fn |-> "generate_pdf_route", outcome |-> r.outcome, exc |-> r.exc,
                      exercises |-> r.exercises, solutions |-> r.solutions]
    /\ NoSave
    /\ UNCHANGED <<users, now, latest_exercises, latest_meta, purchase_orders, th, since>>

\* datetime.now() moves on between requests.
Tick(d) ==
    /\ now + d <= MaxNow
    /\ now' = now + d
    /\ resp' = NoResp
    /\ NoSave
    /\ UNCHANGED <<purchase_orders, users, globals, th, reqs, since, call>>

\* ----------------------------------------------------------- specifications
\* The sessions that send requests: alice logged in, or nobody.
Sessions == {"alice", Anonymous}

\* Requests served one after the other, each handler run to its end.
Next ==
    \/ \E s \in Sessions : IndexGet(s)
    \/ \E s \in Sessions, f \in PostForms :
          IndexPost(s, f.phase, f.level, f.category, f.nb_ops, f.pdf_columns)
    \/ \E s \in Sessions, method \in {"GET", "POST"}, plan \in {"free", "monthly", "twenty", "bogus"} :
          ChoosePlan(s, method, plan)
    \/ \E s \in Sessions, key \in {"monthly", "twenty", "invalid"} : ActivateKey(s, key)
    \/ \E d \in TickSteps : Tick(d)

Spec == Init /\ [][Next]_vars

\* One account spending the "twenty" plan to its end: it activates the plan
\* by key, any number of times, and sends well-formed generate requests for
\* the given levels.
QuotaForms(levels) == {Form("generate", l, "addition", GoodInt(1), GoodInt(3)) : l \in levels}

InitQuota ==
    /\ users = [a \in Accounts |-> NewUser]
    /\ now = 0
    /\ latest_exercises = NoneVal
    /\ latest_meta = NoneVal
    /\ latest_result = NoneVal
    /\ purchase_orders = [o \in OrderIds |-> NoPlan]
    /\ resp = NoResp
    /\ th = [t \in Threads |-> Idle]
    /\ reqs = Unmetered
    /\ since = [a \in Accounts |-> 0]
    /\ call = NoCall
    /\ drive = [up |-> TRUE, file |-> [a \in Accounts |-> NewUser], called |-> FALSE]

\* ... for the tiers.
NextQuota ==
    \/ ActivateKey("alice", "twenty")
    \/ \E f \in QuotaForms(ReqTiers) :
          IndexPost("alice", f.phase, f.level, f.category, f.nb_ops, f.pdf_columns)
    \/ IndexGet("alice")

SpecQuota == InitQuota /\ [][NextQuota]_vars

\* ... for the tiers and for "total", the key of usage_count that is no tier.
NextQuotaKeys ==
    \/ ActivateKey("alice", "twenty")
    \/ \E f \in QuotaForms(ReqTiers \cup {"total"}) :
          IndexPost("alice", f.phase, f.level, f.category, f.nb_ops, f.pdf_columns)
    \/ IndexGet("alice")

SpecQuotaKeys == InitQuota /\ [][NextQuotaKeys]_vars

\* --------------------------------------------- POST / served by a thread
\* The development server serves each request on a thread of its own, so a
\* request can be overtaken between two statements of index_post.  A thread
\* goes through: lines 1205-1212 (PostBegin), the can_use_plan check of lines
\* 1213-1215 (PostAuth), track_usage of line 1216 (PostTrack), and lines
\* 1217-1242 (PostFinish).
Respond(t, r) ==
    /\ resp' = r
    /\ th' = [th EXCEPT ![t] = [@ EXCEPT !.pc = "idle"]]

PostBegin(t, s, f) ==
    /\ th[t].pc = "idle"
    /\ Budget
    /\ IF s = Anonymous
       THEN /\ resp' = Resp("index_post", s, f.level, "redirect:/login", "none", "n/a", 0, 0)
            /\ th' = [th EXCEPT ![t] = [Idle EXCEPT !.user = s, !.level = f.level]]
       ELSE IF users[s].plan = NoPlan
       THEN /\ resp' = Resp("index_post", s, f.level, "redirect:/choose_plan", "none", "n/a", 0, 0)
            /\ th' = [th EXCEPT ![t] = [Idle EXCEPT !.user = s, !.level = f.level]]
       ELSE IF f.phase # "generate"
       THEN /\ resp' = Resp("index_post", s, f.level, "redirect:/", "none", "n/a", 0, 0)
            /\ th' = [th EXCEPT ![t] = [Idle EXCEPT !.user = s, !.level = f.level]]
       ELSE /\ resp' = NoResp
            /\ th' = [th EXCEPT ![t] = [pc |-> "auth", user |-> s, level |-> f.level,
                                        category |-> f.category, nb_ops |-> f.nb_ops,
                                        pdf_columns |-> f.pdf_columns, auth |-> "n/a", tracked |-> 0]]
    /\ NoSave
    /\ UNCHANGED <<purchase_orders, users, now, globals, since, call>>

PostAuth(t) ==
    /\ th[t].pc = "auth"
    /\ LET a == th[t].user
           c == can_use_plan(users[a], th[t].level)
       IN  /\ users' = [users EXCEPT ![a] = c.user]
           /\ since' = SinceAfter(a, c.user, FALSE)
           /\ IF c.exc # "none"
              THEN /\ resp' = Resp("index_post", a, th[t].level, "error", c.exc, "KeyError", 0, 0)
                   /\ th' = [th EXCEPT ![t] = [@ EXCEPT !.pc = "idle", !.auth = "KeyError"]]
              ELSE IF ~c.ret
              THEN /\ resp' = Resp("index_post", a, th[t].level, "redirect:/", "none", "False", 0, 0)
                   /\ th' = [th EXCEPT ![t] = [@ EXCEPT !.pc = "idle", !.auth = "False"]]
              ELSE /\ resp' = NoResp
                   /\ th' = [th EXCEPT ![t] = [@ EXCEPT !.pc = "track", !.auth = "True"]]
    /\ NoSave
    /\ UNCHANGED <<purchase_orders, now, globals, reqs, call>>

PostTrack(t) ==
    /\ th[t].pc = "track"
    /\ LET a == th[t].user
           k == track_usage(users[a], th[t].level, drive)
       IN  /\ users' = [users EXCEPT ![a] = k.user]
           /\ since' = SinceAfter(a, k.user, FALSE)
           /\ IF k.exc # "none"
              THEN /\ resp' = Resp("index_post", a, th[t].level, "error", k.exc, "True", 1, 0)
                   /\ th' = [th EXCEPT ![t] = [@ EXCEPT !.pc = "idle", !.tracked = 1]]
              ELSE /\ resp' = NoResp
                   /\ th' = [th EXCEPT ![t] = [@ EXCEPT !.pc = "finish", !.tracked = 1]]
           /\ Persist(k.saved, k.written, users')
    /\ UNCHANGED <<purchase_orders, now, globals, reqs, call>>

PostFinish(t) ==
    /\ th[t].pc = "finish"
    /\ \E draw \in PostDraws :
       \E f \in {FinishGenerate(th[t].level, th[t].category, th[t].nb_ops, th[t].pdf_columns, draw,
                                latest_exercises, latest_meta, latest_result)} :
           /\ latest_exercises' = f.le
           /\ latest_meta' = f.lm
           /\ latest_result' = f.lr
           /\ Respond(t, Resp("index_post", th[t].user, th[t].level, f.outcome, f.exc, "True", 1, f.generated))
    /\ NoSave
    /\ UNCHANGED <<purchase_orders, users, now, reqs, since, call>>

\* Well-formed generate requests for the tiers.
TierForms == {Form("generate", l, "addition", GoodInt(1), GoodInt(3)) : l \in ReqTiers}

\* Concurrent generate requests, all for one tier, of one account that only
\* ever has the free plan.
RaceTier == LevelSeq[1]
RaceForm == Form("generate", RaceTier, "addition", GoodInt(1), GoodInt(3))

NextRace ==
    \/ ChoosePlan("alice", "POST", "free")
    \/ \E t \in Threads : PostBegin(t, "alice", RaceForm)
    \/ \E t \in Threads : PostAuth(t)
    \/ \E t \in Threads : PostTrack(t)
    \/ \E t \in Threads : PostFinish(t)

SpecRace == InitQuota /\ [][NextRace]_vars

\* Generate requests overtaken by the other requests of the same account: the
\* monthly activation, the expiry check of GET /, the choice of the free plan.
NextConc ==
    \/ \E key \in {"monthly"} : ActivateKey("alice", key)
    \/ ChoosePlan("alice", "POST", "free")
    \/ IndexGet("alice")
    \/ \E d \in TickSteps : Tick(d)
    \/ \E t \in Threads, f \in TierForms : PostBegin(t, "alice", f)
    \/ \E t \in Threads : PostAuth(t)
    \/ \E t \in Threads : PostTrack(t)
    \/ \E t \in Threads : PostFinish(t)

SpecConc == Init /\ [][NextConc]_vars

\* Buying a plan: the plan selection, the order, PayPal's return to
\* /paypal_success or /paypal_cancel, and a generate request in between.
PaySessions == {"alice", "bob", Anonymous}
Tokens == OrderIds \cup {"", "unknown"}

NextPay ==
    \/ \E s \in PaySessions, plan \in {"free", "monthly", "twenty", "bogus"} : ChoosePlan(s, "POST", plan)
    \/ IndexPost("alice", RaceForm.phase, RaceForm.level, RaceForm.category, RaceForm.nb_ops, RaceForm.pdf_columns)
    \/ \E s \in PaySessions, plan \in {"monthly", "twenty", "bogus"}, created \in OrderIds \cup {"failed"} :
          PurchasePlan(s, plan, created)
    \/ \E s \in PaySessions, token \in Tokens, success \in BOOLEAN : PaypalSuccess(s, token, success)
    \/ \E s \in PaySessions : PaypalCancel(s)

SpecPay == Init /\ [][NextPay]_vars

\* The same returns from PayPal when alice alone places orders: every key of
\* purchase_orders is an order that alice created.
NextOrders ==
    \/ \E plan \in {"monthly", "twenty", "bogus"}, created \in OrderIds \cup {"failed"} :
          PurchasePlan("alice", plan, created)
    \/ \E s \in PaySessions, token \in Tokens, success \in BOOLEAN : PaypalSuccess(s, token, success)
    \/ \E s \in PaySessions : PaypalCancel(s)

SpecOrders == Init /\ [][NextOrders]_vars

\* generate_exercise called on its own, for every operation and tier and for
\* an operation and a level that are none.
GenerateExercise(operation, level) ==
    /\ \E k1 \in Offsets, k2 \in Offsets :
          call' = [fn |-> "generate_exercise", operation |-> operation, level |-> level,
                   exc |-> IF generate_raises(operation, level) THEN "UnboundLocalError" ELSE "none",
                   ret |-> generate_exercise(operation, level, k1, k2)]
    /\ UNCHANGED <<users, now, globals, purchase_orders, resp, th, reqs, since, drive>>

NextGen == \E operation \in Operations \cup {"bogus"}, level \in Levels \cup {"bogus"} : GenerateExercise(operation, level)

SpecGen == Init /\ [][NextGen]_vars

\* Grading: a monthly account generates (one exercise, all four categories,
\* or a category that is none), and /answers is sent forms of one entry whose
\* operands, operator and answer are the user's to choose.
Operands == (0 - 1)..MaxOperand
Divisors == {0 - 1, 0, 2}
OpSymbols == {"+", "-", "×", "÷", "?"}
AnswerChars == {"1", "-", " ", "x"}
AnswerFields == {Absent} \cup {Field(str) : str \in UNION {[1..n -> AnswerChars] : n \in 0..MaxLen}}

Entry(a, b, op, answer) == [a |-> a, b |-> b, op |-> op, answer |-> answer]
\* Every operand pair and operator with the answer "1"; every answer to
\* 0 + 1; the two other spellings of an operator; an operand that is no
\* integer.
GradeEntries ==
    {Entry(GoodInt(a), GoodInt(b), op, Field(<<"1">>)) : a \in Operands, b \in Divisors, op \in OpSymbols}
    \cup {Entry(GoodInt(0), GoodInt(1), "+", f) : f \in AnswerFields}
    \cup {Entry(GoodInt(1), GoodInt(1), "*", Field(<<"1">>)), Entry(GoodInt(1), GoodInt(1), "/", Field(<<"1">>))}
    \cup {Entry(BadInt, GoodInt(1), "+", Field(<<"1">>)), Entry(GoodInt(1), BadInt, "+", Field(<<"1">>))}

AnswerForm(selected_category, entries) ==
    [selected_category |-> selected_category, theme |-> "light", entries |-> entries]
GradeForms ==
    {AnswerForm("addition", [op \in {"addition"} |-> <<e>>]) : e \in GradeEntries}
    \cup {AnswerForm("all", [op \in Operations |-> <<Entry(GoodInt(1), GoodInt(1), "+", Field(<<"1">>))>>]),
          AnswerForm("bogus", [op \in {"addition"} |-> <<Entry(GoodInt(1), GoodInt(1), "+", Field(<<"1">>))>>])}

GradePosts ==
    {Form("generate", "easy", "addition", GoodInt(1), GoodInt(3)),
     Form("generate", "intermediate", "all", GoodInt(1), GoodInt(3)),
     Form("generate", "easy", "bogus", GoodInt(1), GoodInt(3))}

NextGrade ==
    \/ ActivateKey("alice", "monthly")
    \/ \E f \in GradePosts : IndexPost("alice", f.phase, f.level, f.category, f.nb_ops, f.pdf_columns)
    \/ \E form \in GradeForms : Answers("alice", form)
    \/ Answers(Anonymous, AnswerForm("addition", [op \in {"addition"} |-> <<>>]))

SpecGrade == InitQuota /\ [][NextGrade]_vars

\* Scoring: a monthly account generates, and the first /answers of the
\* behaviour is a form of total additions 0 + 1 of which the first
\* right are answered "1" and the others are left empty.
ScoreForm(total, right) ==
    AnswerForm("addition",
               [op \in {"addition"} |->
                   [i \in 1..total |->
                       Entry(GoodInt(0), GoodInt(1), "+", IF i <= right THEN Field(<<"1">>) ELSE Field(<<>>))]])
ScoreForms == UNION {{ScoreForm(total, right) : right \in 0..total} : total \in 0..MaxQuestions}

\* The first /answers of a behaviour.
FirstAnswers(s, form) ==
    /\ call = NoCall
    /\ Answers(s, form)

NextScore ==
    \/ ActivateKey("alice", "monthly")
    \/ IndexPost("alice", "generate", "easy", "addition", GoodInt(1), GoodInt(3))
    \/ \E form \in ScoreForms : FirstAnswers("alice", form)

SpecScore == InitQuota /\ [][NextScore]_vars

\* Round trip: a monthly account generates once, for any tier and category
\* and any draws, and sends back the form as the page renders it (the hidden
\* fields {cat}_{i}_a, _b and _op hold str() of the exercise's a, b and op,
\* lines 692-694) with str(result) typed into every answer field.
Digits == <<"0", "1", "2", "3", "4", "5", "6", "7", "8", "9">>
\* str(n) of an integer
RECURSIVE Str(_)
Str(n) ==
    IF n < 0 THEN <<"-">> \o Str(0 - n)
    ELSE IF n < 10 THEN <<Digits[n + 1]>>
    ELSE Str(n \div 10) \o <<Digits[(n % 10) + 1]>>

TripForm(le, lm) ==
    AnswerForm(lm.selected_category,
               [op \in DOMAIN le |->
                   [i \in 1..Len(le[op]) |->
                       Entry(ParseInt(Str(le[op][i].a)), ParseInt(Str(le[op][i].b)), le[op][i].op,
                             Field(Str(le[op][i].result)))]])

TripDraws == Offsets \X Offsets
FirstPost(s, level, category) ==
    /\ latest_exercises = NoneVal
    /\ IndexPostDrawn(s, "generate", level, category, GoodInt(MaxOps), GoodInt(3), TripDraws)
TripAnswers(s) ==
    /\ latest_exercises # NoneVal /\ latest_meta # NoneVal
    /\ ~HoldsNone(latest_exercises)
    /\ Answers(s, TripForm(latest_exercises, latest_meta))

NextTrip ==
    \/ ActivateKey("alice", "monthly")
    \/ \E level \in Levels, category \in Operations \cup {"all"} : FirstPost("alice", level, category)
    \/ TripAnswers("alice")

SpecTrip == InitQuota /\ [][NextTrip]_vars

\* Persistence failing: between requests Google Drive goes down and comes
\* back; alice takes the free or the "twenty" plan and sends well-formed
\* generate requests for the tiers.
DriveSwitch(up) ==
    /\ drive.up # up
    /\ drive' = [drive EXCEPT !.up = up, !.called = FALSE]
    /\ resp' = NoResp
    /\ UNCHANGED <<users, now, globals, purchase_orders, th, reqs, since, call>>

NextFail ==
    \/ ChoosePlan("alice", "POST", "free")
    \/ ActivateKey("alice", "twenty")
    \/ \E f \in TierForms : IndexPost("alice", f.phase, f.level, f.category, f.nb_ops, f.pdf_columns)
    \/ IndexGet("alice")
    \/ \E up \in BOOLEAN : DriveSwitch(up)

SpecFail == Init /\ [][NextFail]_vars

\* Two accounts on one process: alice and bob take the free plan, alice
\* generates for the first tier and bob for the second, either sends back
\* the form of its own page with the right answers, and anybody asks for
\* the PDF.
LevelOf(a) == IF a = "alice" THEN LevelSeq[1] ELSE LevelSeq[2]
ExercisesOf(a) ==
    FinishGenerate(LevelOf(a), "addition", GoodInt(MaxOps), GoodInt(3), <<0 - 1, 0 - 1>>,
                   NoneVal, NoneVal, NoneVal).le
MetaOf(a) ==
    FinishGenerate(LevelOf(a), "addition", GoodInt(MaxOps), GoodInt(3), <<0 - 1, 0 - 1>>,
                   NoneVal, NoneVal, NoneVal).lm
OwnForm(a) == TripForm(ExercisesOf(a), MetaOf(a))

NextShared ==
    \/ \E s \in Accounts : ChoosePlan(s, "POST", "free")
    \/ \E s \in Accounts : IndexPost(s, "generate", LevelOf(s), "addition", GoodInt(MaxOps), GoodInt(3))
    \/ \E s \in Accounts : Answers(s, OwnForm(s))
    \/ \E s \in Accounts \cup {Anonymous} : GeneratePdf(s)

SpecShared == InitQuota /\ [][NextShared]_vars

\* ------------------------------- the three slots, handlers run by threads
\* index_post after track_usage, answers_route and generate_pdf_route, each
\* cut where it reads or writes latest_meta, latest_exercises or
\* latest_result, so that a thread can be overtaken between two of them.
\* A thread keeps its local variables in th.

\* line 1217-1226 of index_post: int() of the two fields, latest_meta written
FinishMeta(t) ==
    /\ th[t].pc = "finish"
    /\ IF ~th[t].nb_ops.ok \/ ~th[t].pdf_columns.ok
       THEN /\ Respond(t, Resp("index_post", th[t].user, th[t].level, "error", "ValueError", "True", 1, 0))
            /\ UNCHANGED latest_meta
       ELSE /\ latest_meta' = [level |-> th[t].level, selected_category |-> th[t].category,
                               nb_ops |-> th[t].nb_ops.val, pdf_columns |-> th[t].pdf_columns.val]
            /\ th' = [th EXCEPT ![t] = [@ EXCEPT !.pc = "exercises"]]
            /\ resp' = NoResp
    /\ NoSave
    /\ UNCHANGED <<purchase_orders, users, now, latest_exercises, latest_result, reqs, since, call>>

\* lines 1227-1234: the exercises are generated and latest_exercises written
FinishExercises(t) ==
    /\ th[t].pc = "exercises"
    /\ LET ops == OperationsOf(th[t].category)
           n == IF th[t].nb_ops.val > 0 THEN th[t].nb_ops.val ELSE 0
       IN  IF n > 0 /\ \E op \in ops : generate_raises(op, th[t].level)
           THEN /\ Respond(t, Resp("index_post", th[t].user, th[t].level, "error", "UnboundLocalError",
                                   "True", 1, 0))
                /\ UNCHANGED latest_exercises
           ELSE /\ \E draw \in PostDraws :
                      latest_exercises' =
                          [op \in ops |-> [i \in 1..n |-> generate_exercise(op, th[t].level, draw[1], draw[2])]]
                /\ th' = [th EXCEPT ![t] = [@ EXCEPT !.pc = "clear"]]
                /\ resp' = NoResp
    /\ NoSave
    /\ UNCHANGED <<purchase_orders, users, now, latest_meta, latest_result, reqs, since, call>>

\* lines 1235-1242: latest_result = None, and the page is rendered
FinishClear(t) ==
    /\ th[t].pc = "clear"
    /\ latest_result' = NoneVal
    /\ LET ops == OperationsOf(th[t].category)
           n == IF th[t].nb_ops.val > 0 THEN th[t].nb_ops.val ELSE 0
       IN  IF n > 0 /\ \E op \in ops : op \notin Operations
           THEN Respond(t, Resp("index_post", th[t].user, th[t].level, "error", "UndefinedError", "True", 1, 0))
           ELSE Respond(t, Resp("index_post", th[t].user, th[t].level, "exercises", "none", "True", 1,
                                n * Cardinality(ops)))
    /\ NoSave
    /\ UNCHANGED <<purchase_orders, users, now, latest_exercises, latest_meta, reqs, since, call>>

\* lines 1508-1558 of answers_route: the login and the two slots are checked,
\* the form is graded
AnswersBegin(t, s, form) ==
    /\ th[t].pc = "idle"
    /\ Budget
    /\ LET ops == OpSeq(form.selected_category)
           g == GradeOps(form, ops)
           raised == {i \in 1..Len(g) : g[i].exc # "none"}
           feedback == [op \in {ops[j] : j \in 1..Len(ops)} |->
                           [i \in 1..Len(EntriesOf(form, op)) |-> Grade(EntriesOf(form, op)[i]).item]]
           total_correct == Cardinality({i \in 1..Len(g) : g[i].item.correct})
       IN  IF s = Anonymous
           THEN /\ resp' = Resp("answers", s, "", "redirect:/login", "none", "n/a", 0, 0)
                /\ UNCHANGED th
           ELSE IF latest_exercises = NoneVal \/ latest_meta = NoneVal
           THEN /\ resp' = Resp("answers", s, "", "redirect:/", "none", "n/a", 0, 0)
                /\ UNCHANGED th
           ELSE IF raised # {}
           THEN /\ resp' = Resp("answers", s, "", "error", g[CHOOSE i \in raised : \A j \in raised : i <= j].exc,
                                "n/a", 0, 0)
                /\ UNCHANGED th
           ELSE /\ resp' = NoResp
                /\ th' = [th EXCEPT ![t] = [pc |-> "answers_key", user |-> s, form |-> form,
                                            feedback |-> feedback,
                                            score |-> Score(total_correct, Len(g))]]
    /\ NoSave
    /\ UNCHANGED <<purchase_orders, users, now, globals, since, call>>

\* lines 1559-1564: solutions is built from latest_exercises
AnswersKey(t) ==
    /\ th[t].pc = "answers_key"
    /\ IF HoldsNone(latest_exercises)
       THEN /\ resp' = Resp("answers", th[t].user, "", "error", "TypeError", "n/a", 0, 0)
            /\ th' = [th EXCEPT ![t] = Idle]
       ELSE /\ resp' = NoResp
            /\ th' = [th EXCEPT ![t] = [pc |-> "answers_store", user |-> th[t].user, form |-> th[t].form,
                                        feedback |-> th[t].feedback, score |-> th[t].score,
                                        solutions |-> Solutions(latest_exercises)]]
    /\ NoSave
    /\ UNCHANGED <<purchase_orders, users, now, globals, reqs, since, call>>

\* lines 1565-1580: latest_result is written, with latest_exercises and the
\* fields of latest_meta as they are now
AnswersStore(t) ==
    /\ th[t].pc = "answers_store"
    /\ latest_result' = [feedback |-> th[t].feedback, solutions |-> th[t].solutions, score |-> th[t].score,
                         theme |-> th[t].form.theme, level |-> latest_meta.level,
                         selected_category |-> latest_meta.selected_category,
                         exercises |-> latest_exercises, pdf_columns |-> latest_meta.pdf_columns]
    /\ resp' = Resp("answers", th[t].user, "", "result", "none", "n/a", 0, 0)
    /\ call' = [fn |-> "answers_route", form |-> th[t].form, outcome |-> "result", exc |-> "none",
                feedback |-> th[t].feedback, score |-> th[t].score]
    /\ th' = [th EXCEPT ![t] = Idle]
    /\ NoSave
    /\ UNCHANGED <<purchase_orders, users, now, latest_exercises, latest_meta, reqs, since>>

\* lines 1413-1421 of generate_pdf_route: latest_result is looked at; without
\* one the two other slots are checked and solutions is built
PdfBegin(t, s) ==
    /\ th[t].pc = "idle"
    /\ Budget
    /\ IF latest_result # NoneVal
       THEN /\ resp' = NoResp
            /\ th' = [th EXCEPT ![t] = [pc |-> "pdf_questions", user |-> s]]
       ELSE IF latest_exercises = NoneVal \/ latest_meta = NoneVal
       THEN /\ resp' = Resp("generate_pdf", s, "", "400", "none", "n/a", 0, 0)
            /\ UNCHANGED th
       ELSE IF HoldsNone(latest_exercises)
       THEN /\ resp' = Resp("generate_pdf", s, "", "error", "TypeError", "n/a", 0, 0)
            /\ UNCHANGED th
       ELSE /\ resp' = NoResp
            /\ th' = [th EXCEPT ![t] = [pc |-> "pdf_store", user |-> s,
                                        solutions |-> Solutions(latest_exercises)]]
    /\ NoSave
    /\ UNCHANGED <<purchase_orders, users, now, globals, since, call>>

\* lines 1422-1431: latest_result is written
PdfStore(t) ==
    /\ th[t].pc = "pdf_store"
    /\ latest_result' = [feedback |-> <<>>, solutions |-> th[t].solutions, score |-> 0,
                         theme |-> DefaultTheme, level |-> latest_meta.level,
                         selected_category |-> latest_meta.selected_category,
                         exercises |-> latest_exercises, pdf_columns |-> latest_meta.pdf_columns]
    /\ resp' = NoResp
    /\ th' = [th EXCEPT ![t] = [pc |-> "pdf_questions", user |-> th[t].user]]
    /\ NoSave
    /\ UNCHANGED <<purchase_orders, users, now, latest_exercises, latest_meta, reqs, since, call>>

\* lines 1432-1466: pdf_columns of latest_meta divides the width, and the
\* questions of latest_result["exercises"] are printed
PdfQuestions(t) ==
    /\ th[t].pc = "pdf_questions"
    /\ IF latest_meta.pdf_columns = 0
       THEN /\ resp' = Resp("generate_pdf", th[t].user, "", "error", "ZeroDivisionError", "n/a", 0, 0)
            /\ th' = [th EXCEPT ![t] = Idle]
       ELSE IF latest_result = NoneVal
       THEN /\ resp' = Resp("generate_pdf", th[t].user, "", "error", "TypeError", "n/a", 0, 0)
            /\ th' = [th EXCEPT ![t] = Idle]
       ELSE /\ resp' = NoResp
            /\ th' = [th EXCEPT ![t] = [pc |-> "pdf_solutions", user |-> th[t].user,
                                        exercises |-> latest_result.exercises]]
    /\ NoSave
    /\ UNCHANGED <<purchase_orders, users, now, globals, reqs, since, call>>

\* lines 1467-1503: the solutions of latest_result["solutions"] are printed,
\* the PDF is uploaded and sent
PdfSolutions(t) ==
    /\ th[t].pc = "pdf_solutions"
    /\ IF latest_result = NoneVal \/ ~drive.up
       THEN /\ resp' = Resp("generate_pdf", th[t].user, "", "error",
                            IF latest_result = NoneVal THEN "TypeError" ELSE "HttpError", "n/a", 0, 0)
            /\ UNCHANGED call
       ELSE /\ resp' = Resp("generate_pdf", th[t].user, "", "pdf", "none", "n/a", 0, 0)
            /\ call' = [fn |-> "generate_pdf_route", outcome |-> "pdf", exc |-> "none",
                        exercises |-> th[t].exercises, solutions |-> latest_result.solutions]
    /\ th' = [th EXCEPT ![t] = Idle]
    /\ NoSave
    /\ UNCHANGED <<purchase_orders, users, now, globals, reqs, since>>

\* A monthly account whose requests (generate for a tier, the answers to the
\* page of a tier, the PDF), MaxReq of them, are served by SlotThreads threads.
SlotThreads == 1..NSlotThreads
SlotForm(level) ==
    TripForm(FinishGenerate(level, "addition", GoodInt(1), GoodInt(3), <<0 - 1, 0 - 1>>,
                            NoneVal, NoneVal, NoneVal).le,
             [selected_category |-> "addition"])

\* users.json, loaded at the start, has alice on a monthly plan taken today.
Subscriber == [NewUser EXCEPT !.plan = "monthly", !.plan_start = 0]
InitSlots ==
    /\ users = [a \in Accounts |-> IF a = "alice" THEN Subscriber ELSE NewUser]
    /\ now = 0
    /\ latest_exercises = NoneVal
    /\ latest_meta = NoneVal
    /\ latest_result = NoneVal
    /\ purchase_orders = [o \in OrderIds |-> NoPlan]
    /\ resp = NoResp
    /\ th = [t \in Threads |-> Idle]
    /\ reqs = 0
    /\ since = [a \in Accounts |-> 0]
    /\ call = NoCall
    /\ drive = [up |-> TRUE, file |-> users, called |-> FALSE]

NextSlots ==
    \/ \E t \in SlotThreads, f \in TierForms : PostBegin(t, "alice", f)
    \/ \E t \in SlotThreads : PostAuth(t)
    \/ \E t \in SlotThreads : PostTrack(t)
    \/ \E t \in SlotThreads : FinishMeta(t)
    \/ \E t \in SlotThreads : FinishExercises(t)
    \/ \E t \in SlotThreads : FinishClear(t)
    \/ \E t \in SlotThreads, level \in ReqTiers : AnswersBegin(t, "alice", SlotForm(level))
    \/ \E t \in SlotThreads : AnswersKey(t)
    \/ \E t \in SlotThreads : AnswersStore(t)
    \/ \E t \in SlotThreads : PdfBegin(t, "alice")
    \/ \E t \in SlotThreads : PdfStore(t)
    \/ \E t \in SlotThreads : PdfQuestions(t)
    \/ \E t \in SlotThreads : PdfSolutions(t)

SpecSlots == InitSlots /\ [][NextSlots]_vars

\* activate_key with update_activation_after_payment inlined, and index_get,
\* each cut at its reads and writes of users[email], so that a thread can be
\* overtaken between two of them.  A thread keeps the account, the plan and
\* the datetime.now() of its activation in th, also after it has answered.

\* lines 1281-1288 of activate_key, then lines 1301-1303 of
\* update_activation_after_payment
ActBegin(t, s, key) ==
    /\ th[t].pc = "idle"
    /\ Budget
    /\ IF s = Anonymous
       THEN /\ resp' = Resp("activate_key", s, "", "redirect:/login", "none", "n/a", 0, 0)
            /\ th' = [th EXCEPT ![t] = Idle]
       ELSE IF key \notin {"monthly", "twenty"}
       THEN /\ resp' = Resp("activate_key", s, key, "redirect:/activation", "none", "n/a", 0, 0)
            /\ th' = [th EXCEPT ![t] = Idle]
       ELSE /\ resp' = NoResp
            /\ th' = [th EXCEPT ![t] = [pc |-> "act_plan", user |-> s, plan |-> key, at |-> NoStart]]
    /\ NoSave
    /\ UNCHANGED <<purchase_orders, users, now, globals, since, call>>

\* line 1306, or line 1312: user_data["plan"] = plan
ActPlan(t) ==
    /\ th[t].pc = "act_plan"
    /\ users' = [users EXCEPT ![th[t].user].plan = th[t].plan]
    /\ since' = SinceAfter(th[t].user, users'[th[t].user], th[t].plan = "twenty")
    /\ th' = [th EXCEPT ![t].pc = IF th[t].plan = "monthly" THEN "act_start" ELSE "act_save"]
    /\ resp' = NoResp
    /\ NoSave
    /\ UNCHANGED <<purchase_orders, now, globals, reqs, call>>

\* line 1307: user_data["plan_start"] = datetime.now()
ActStart(t) ==
    /\ th[t].pc = "act_start"
    /\ users' = [users EXCEPT ![th[t].user].plan_start = now]
    /\ th' = [th EXCEPT ![t].pc = "act_save", ![t].at = now]
    /\ resp' = NoResp
    /\ NoSave
    /\ UNCHANGED <<purchase_orders, now, globals, reqs, since, call>>

\* line 1314: save_users(), and activate_key redirects
ActSave(t) ==
    /\ th[t].pc = "act_save"
    /\ Persist(TRUE, save_users(drive).written, users)
    /\ resp' = Resp("activate_key", th[t].user, th[t].plan, "redirect:/", "none", "n/a", 0, 0)
    /\ th' = [th EXCEPT ![t].pc = "idle"]
    /\ UNCHANGED <<purchase_orders, users, now, globals, reqs, since, call>>

\* lines 1164-1169 of index_get: the session and "plan" not in user_data
GetBegin(t, s) ==
    /\ th[t].pc = "idle"
    /\ Budget
    /\ IF s = Anonymous
       THEN /\ resp' = Resp("index_get", s, "", "landing", "none", "n/a", 0, 0)
            /\ th' = [th EXCEPT ![t] = Idle]
       ELSE IF users[s].plan = NoPlan
       THEN /\ resp' = Resp("index_get", s, "", "redirect:/choose_plan", "none", "n/a", 0, 0)
            /\ th' = [th EXCEPT ![t] = Idle]
       ELSE /\ resp' = NoResp
            /\ th' = [th EXCEPT ![t] = [pc |-> "get_check", user |-> s]]
    /\ NoSave
    /\ UNCHANGED <<purchase_orders, users, now, globals, since, call>>

\* lines 1170-1173: user_data["plan"] and user_data["plan_start"] are read
\* and the start compared with datetime.now()
GetCheck(t) ==
    /\ th[t].pc = "get_check"
    /\ LET u == users[th[t].user] IN
       IF u.plan = NoPlan \/ (u.plan = "monthly" /\ u.plan_start = NoStart)
       THEN Respond(t, Resp("index_get", th[t].user, "", "error", "KeyError", "n/a", 0, 0))
       ELSE /\ resp' = NoResp
            /\ th' = [th EXCEPT ![t].pc = IF u.plan = "monthly" /\ now > u.plan_start + PlanDays
                                          THEN "get_pop_plan" ELSE "get_rest"]
    /\ NoSave
    /\ UNCHANGED <<purchase_orders, users, now, globals, reqs, since, call>>

\* line 1174: user_data.pop("plan", None)
GetPopPlan(t) ==
    /\ th[t].pc = "get_pop_plan"
    /\ users' = [users EXCEPT ![th[t].user].plan = NoPlan]
    /\ th' = [th EXCEPT ![t].pc = "get_pop_start"]
    /\ resp' = NoResp
    /\ NoSave
    /\ UNCHANGED <<purchase_orders, now, globals, reqs, since, call>>

\* line 1175: user_data.pop("plan_start", None)
GetPopStart(t) ==
    /\ th[t].pc = "get_pop_start"
    /\ users' = [users EXCEPT ![th[t].user].plan_start = NoStart]
    /\ th' = [th EXCEPT ![t].pc = "get_save"]
    /\ resp' = NoResp
    /\ NoSave
    /\ UNCHANGED <<purchase_orders, now, globals, reqs, since, call>>

\* lines 1176-1177: save_users() and the redirect to /choose_plan
GetSave(t) ==
    /\ th[t].pc = "get_save"
    /\ Persist(TRUE, save_users(drive).written, users)
    /\ Respond(t, Resp("index_get", th[t].user, "", "redirect:/choose_plan", "none", "n/a", 0, 0))
    /\ UNCHANGED <<purchase_orders, users, now, globals, reqs, since, call>>

\* lines 1178-1201: user_data["plan"] is read again for the free trial, and
\* for a monthly plan user_data["plan_start"] is formatted for the page
GetRest(t) ==
    /\ th[t].pc = "get_rest"
    /\ LET s == th[t].user
           u == users[s] IN
       IF u.plan = NoPlan
       THEN /\ Respond(t, Resp("index_get", s, "", "error", "KeyError", "n/a", 0, 0))
            /\ UNCHANGED users
       ELSE /\ users' = [users EXCEPT ![s] = SetDefaultUsage(u)]
            /\ IF u.plan = "free" /\ AllExhausted(u.usage_count)
               THEN Respond(t, Resp("index_get", s, "", "redirect:/choose_plan", "none", "n/a", 0, 0))
               ELSE IF u.plan = "monthly" /\ u.plan_start = NoStart
               THEN Respond(t, Resp("index_get", s, "", "error", "KeyError", "n/a", 0, 0))
               ELSE Respond(t, Resp("index_get", s, "", "selection", "none", "n/a", 0, 0))
    /\ NoSave
    /\ UNCHANGED <<purchase_orders, now, globals, reqs, since, call>>

\* alice's monthly plan, taken at the start, runs out while she and bob, who
\* has no plan yet, activate keys and open the selection page; the requests,
\* MaxReq of them, are served by SlotThreads threads.
NextAct ==
    \/ \E t \in SlotThreads, s \in PaySessions, key \in {"monthly", "twenty", "invalid"} : ActBegin(t, s, key)
    \/ \E t \in SlotThreads : ActPlan(t)
    \/ \E t \in SlotThreads : ActStart(t)
    \/ \E t \in SlotThreads : ActSave(t)
    \/ \E t \in SlotThreads, s \in PaySessions : GetBegin(t, s)
    \/ \E t \in SlotThreads : GetCheck(t)
    \/ \E t \in SlotThreads : GetPopPlan(t)
    \/ \E t \in SlotThreads : GetPopStart(t)
    \/ \E t \in SlotThreads : GetSave(t)
    \/ \E t \in SlotThreads : GetRest(t)
    \/ \E d \in TickSteps : Tick(d)

SpecAct == InitSlots /\ [][NextAct]_vars

\* The same with monthly keys only: nothing but the expiry check of GET /
\* takes a plan away.
NextExpiry ==
    \/ \E t \in SlotThreads, s \in PaySessions : ActBegin(t, s, "monthly")
    \/ \E t \in SlotThreads : ActPlan(t)
    \/ \E t \in SlotThreads : ActStart(t)
    \/ \E t \in SlotThreads : ActSave(t)
    \/ \E t \in SlotThreads, s \in PaySessions : GetBegin(t, s)
    \/ \E t \in SlotThreads : GetCheck(t)
    \/ \E t \in SlotThreads : GetPopPlan(t)
    \/ \E t \in SlotThreads : GetPopStart(t)
    \/ \E t \in SlotThreads : GetSave(t)
    \/ \E t \in SlotThreads : GetRest(t)
    \/ \E d \in TickSteps : Tick(d)

SpecExpiry == InitSlots /\ [][NextExpiry]_vars

\* ================================================================== claims
Usage(a) == users[a].usage_count
CanUse(u, level) == can_use_plan(u, level).ret
Expired(u) == u.plan = "monthly" /\ u.plan_start # NoStart /\ now > u.plan_start + PlanDays
PostBy(r, a) == r.route = "index_post" /\ r.user = a

\* C1: a generate request issued at a time now > plan_start + 30 days by an
\* account whose plan is "monthly" produces no exercises, also when no GET /
\* came since the expiry.
C1_NoGenerationAfterExpiry ==
    \A a \in Accounts :
        (PostBy(resp, a) /\ Expired(users[a])) => resp.generated = 0

\* A free account's can_use_plan returns, and returns usage_count[tier] < 1.
C2_FreeState ==
    \A a \in Accounts, t \in Levels :
        users[a].plan = "free" =>
            /\ can_use_plan(users[a], t).exc = "none"
            /\ CanUse(users[a], t) <=> (Usage(a)[t] < 1)
\* The step of a free account's request for tier t that calls track_usage.
C2_FreeStep ==
    \A a \in Accounts, t \in Levels :
        (users[a].plan = "free" /\ PostBy(resp', a) /\ resp'.level = t /\ resp'.tracked = 1) =>
            /\ CanUse(users[a], t)
            /\ ~CanUse(users'[a], t)
            /\ \A o \in Levels \ {t} : CanUse(users'[a], o) = CanUse(users[a], o)
\* C2: for a free-plan account can_use_plan(account, tier) is true iff
\* usage_count[tier] < 1: true before any usage of the tier, false for the
\* tier after one track_usage of it, and unchanged for every other tier by
\* that track_usage.
C2_FreeOncePerTier == [](C2_FreeState) /\ [][C2_FreeStep]_vars

\* A free account has used one tier: that tier is refused, another is not.
C2_Witness ==
    /\ users["alice"].plan = "free"
    /\ PostBy(resp, "alice") /\ resp.tracked = 1 /\ resp.level = "easy"
    /\ ~CanUse(users["alice"], "easy")
    /\ CanUse(users["alice"], "hard")

\* C3: for a "twenty" account can_use_plan is true iff usage_count["total"] <
\* 20; once 20 usages are counted since the activation it is false for every
\* tier; and with requests served one after the other usage_count["total"]
\* never exceeds 20.
C3_TwentyCeiling ==
    \A a \in Accounts :
        users[a].plan = "twenty" =>
            /\ \A t \in Levels : CanUse(users[a], t) <=> (Total(users[a]) < TwentyLimit)
            /\ since[a] >= TwentyLimit => \A t \in Levels : ~CanUse(users[a], t)
            /\ Total(users[a]) <= TwentyLimit

\* C4: after update_activation_after_payment("twenty") can_use_plan is true
\* for the account until 20 further usages are recorded, also when 20 usages
\* were recorded under an earlier "twenty" plan.
C4_ActivationGrantsTwenty ==
    \A a \in Accounts :
        (users[a].plan = "twenty" /\ since[a] < TwentyLimit) =>
            \A t \in Levels : CanUse(users[a], t)

\* The step in which a thread's can_use_plan call ends, for an account that
\* has no plan when it is called.
C5_Call ==
    \A t \in Threads :
        (th[t].pc = "auth" /\ th'[t].pc # "auth" /\ users[th[t].user].plan = NoPlan) =>
            th'[t].auth = "False"
\* A generate request that finds the account without plan.
C5_Request ==
    \A a \in Accounts :
        (users[a].plan = NoPlan /\ PostBy(resp', a) /\ resp'.auth = "n/a") =>
            /\ resp'.generated = 0
            /\ users'[a].usage_count = Usage(a)
\* C5: for an account with no plan assigned can_use_plan returns false (it
\* returns, it does not fault), and a generate request of such an account
\* produces no exercises and records no usage.
C5_NoPlanRefused == [][C5_Call /\ C5_Request]_vars

\* The requests of a for the tier that passed the can_use_plan check: those
\* whose usage is recorded, and those about to call track_usage.  (Exact for
\* an account that only ever has the free plan.)
Authorized(a, tier) ==
    Usage(a)[tier] + Cardinality({t \in Threads : th[t].pc = "track" /\ th[t].user = a /\ th[t].level = tier})

\* C6, as the specification states it: under any interleaving of concurrent
\* generate requests of a free-plan account for a tier, at most limit + 1 = 2
\* requests are authorized for the tier, whatever the number of concurrent
\* requests.
C6_AtMostOneExtra ==
    \A a \in Accounts :
        users[a].plan = "free" => Authorized(a, RaceTier) <= FreeLimit + 1

\* At most one authorization per request thread.
C6_State ==
    \A a \in Accounts :
        users[a].plan = "free" => Authorized(a, RaceTier) <= NThreads
\* A request is authorized only while no usage of its tier is recorded.
C6_AuthStep ==
    \A t \in Threads :
        (th[t].pc = "auth" /\ th'[t].pc = "track") => Usage(th[t].user)[th[t].level] < FreeLimit
\* C6, amended: with NThreads concurrent requests at most NThreads are
\* authorized for the tier (limit + NThreads - 1), and none is authorized
\* once a usage of the tier is recorded.
C6_AtMostOnePerConcurrentRequest == [](C6_State) /\ [][C6_AuthStep]_vars

\* Every thread's request for the tier was authorized: more than limit + 1.
C6_Witness ==
    /\ users["alice"].plan = "free"
    /\ Authorized("alice", RaceTier) = NThreads
    /\ Usage("alice")[RaceTier] = NThreads

\* C7: usage_count is incremented only if the request's exercises were
\* generated; a request that fails after authorization leaves usage_count as
\* it was before the request.
C7_UsageOnlyAfterGeneration ==
    [][\A a \in Accounts :
          (PostBy(resp', a) /\ resp'.outcome # "exercises") => users'[a].usage_count = Usage(a)]_vars

\* What track_usage(a, t) is to do under a's plan.
C8_Tracked(a, t) ==
    /\ users[a].plan = "free" => users'[a].usage_count = [Usage(a) EXCEPT ![t] = @ + 1]
    /\ users[a].plan = "twenty" =>
           users'[a].usage_count = [Usage(a) EXCEPT ![t] = @ + 1, !["total"] = @ + 1]
    /\ users[a].plan = "monthly" => users'[a].usage_count = Usage(a)
    /\ users'[a].plan = users[a].plan
    /\ users'[a].plan_start = users[a].plan_start
\* C8: track_usage(account, tier) adds 1 to usage_count[tier] only under the
\* free plan, 1 to usage_count[tier] and 1 to usage_count["total"] under
\* "twenty", nothing under "monthly"; every other counter, plan and
\* plan_start are unchanged.
C8_TrackUsageFrame ==
    [][\A a \in Accounts, t \in Levels :
          (PostBy(resp', a) /\ resp'.level = t /\ resp'.tracked = 1) => C8_Tracked(a, t)]_vars

\* A "twenty" account whose request for a tier was tracked.
C8_Witness ==
    /\ users["alice"].plan = "twenty"
    /\ PostBy(resp, "alice") /\ resp.tracked = 1 /\ resp.level \in Levels
    /\ Usage("alice")[resp.level] = 1 /\ Total(users["alice"]) = 1

\* A served POST /: track_usage was called once if can_use_plan answered
\* True and not at all otherwise, and no counter rose by more than one.
C9_Step ==
    \A a \in Accounts :
        PostBy(resp', a) =>
            /\ resp'.tracked <= 1
            /\ resp'.tracked = 1 <=> resp'.auth = "True"
            /\ resp'.level \in Levels =>
                  \A k \in UsageKeys : users'[a].usage_count[k] <= Usage(a)[k] + 1
\* C9: track_usage is called at most once per authorized generate request,
\* whatever nb_ops and whether the category is one operation or "all": the
\* request consumes one usage unit.
C9_TrackedOncePerRequest == [][C9_Step]_vars

\* A request for all four categories was served and tracked once.
C9_Witness ==
    /\ PostBy(resp, "alice") /\ resp.outcome = "exercises"
    /\ resp.generated = 4 * MaxOps /\ resp.tracked = 1
    /\ users["alice"].plan = "twenty" /\ Total(users["alice"]) = 1

\* C10: within a plan period (plan and plan_start unchanged) no step lowers a
\* usage counter.
C10_CountersMonotonic ==
    [][\A a \in Accounts, k \in UsageKeys :
          (users'[a].plan = users[a].plan /\ users'[a].plan_start = users[a].plan_start) =>
              users'[a].usage_count[k] >= Usage(a)[k]]_vars

\* A counter raised by a generate request is still there after a later
\* request that tracks nothing.
C10_Witness ==
    /\ users["alice"].plan = "free"
    /\ Usage("alice")["easy"] = 1
    /\ resp.route = "index_get" /\ resp.user = "alice"

\* The steps that change an account's plan: a served /choose_plan or
\* /activate_key, and the GET / that finds the monthly plan expired.
PlanChange(a) ==
    /\ resp'.user = a
    /\ \/ resp'.route \in {"choose_plan", "activate_key"}
       \/ resp'.route = "index_get" /\ users[a].plan = "monthly" /\ users'[a].plan = NoPlan
\* C11: choose_plan (selecting free), update_activation_after_payment
\* (monthly or twenty) and the expiry transition of index_get leave every
\* counter of usage_count at its previous value, and do not remove
\* usage_count.
C11_PlanChangeKeepsUsage ==
    [][\A a \in Accounts :
          PlanChange(a) =>
              /\ users'[a].usage_count = Usage(a)
              /\ users[a].has_usage => users'[a].has_usage]_vars

\* A used free tier is still counted after the monthly plan was activated.
C11_Witness ==
    /\ resp.route = "activate_key" /\ resp.user = "alice"
    /\ users["alice"].plan = "monthly"
    /\ Usage("alice")["easy"] = 1

\* A served GET / of a, whose plan was "monthly".
MonthlyGet(a) == resp'.route = "index_get" /\ resp'.user = a /\ users[a].plan = "monthly"
\* plan and plan_start removed, and the redirection to the plan selection.
Invalidated(a) ==
    /\ users'[a].plan = NoPlan
    /\ users'[a].plan_start = NoStart
    /\ resp'.outcome = "redirect:/choose_plan"
\* C12: the expiry check of index_get removes plan and plan_start and
\* redirects to the plan selection iff now > plan_start + 30 days; up to and
\* including day 30 the plan stays "monthly" with its plan_start and
\* can_use_plan is true for every tier.
C12_ExpiryBoundary ==
    [][\A a \in Accounts :
          MonthlyGet(a) =>
              /\ Invalidated(a) <=> now > users[a].plan_start + PlanDays
              /\ now <= users[a].plan_start + PlanDays =>
                    /\ users'[a].plan = "monthly"
                    /\ users'[a].plan_start = users[a].plan_start
                    /\ resp'.outcome = "selection"
                    /\ \A t \in Levels : CanUse(users'[a], t)]_vars

\* GET / at exactly 30 days after the activation: the plan is still there.
C12_Witness ==
    /\ resp.route = "index_get" /\ resp.user = "alice" /\ resp.outcome = "selection"
    /\ users["alice"].plan = "monthly"
    /\ now = users["alice"].plan_start + PlanDays

\* A paid plan: "monthly" or "twenty".
Paid(plan) == plan \in {"monthly", "twenty"}
\* A step in which the payment failed: /paypal_cancel, or /paypal_success
\* whose capture did not report COMPLETED.
PaymentFailed ==
    \/ \E s \in PaySessions : PaypalCancel(s)
    \/ \E s \in PaySessions, token \in Tokens : PaypalSuccess(s, token, FALSE)
\* C13: a failed payment (capture not COMPLETED, or the payment cancelled)
\* leaves every account's plan, plan_start and usage_count unchanged;
\* choose_plan never sets a paid plan; and an account's plan becomes a paid
\* plan only in a step that calls update_activation_after_payment.
C13_FailedPaymentActivatesNothing ==
    [][/\ PaymentFailed => users' = users
       /\ \A a \in Accounts :
            /\ (resp'.route = "choose_plan" /\ users'[a].plan # users[a].plan) => ~Paid(users'[a].plan)
            /\ (Paid(users'[a].plan) /\ users'[a].plan # users[a].plan) =>
                  \E token \in Tokens :
                      /\ PaypalSuccess(a, token, TRUE)
                      /\ users'[a] = update_activation_after_payment(users[a], OrderPlan(token), now)]_vars

\* The capture of alice's own order was not completed: she keeps the free
\* plan.
C13_Witness ==
    /\ resp.route = "paypal_success" /\ resp.user = "alice" /\ resp.outcome = "flash:not completed"
    /\ OrderPlan(resp.level) = "monthly"
    /\ users["alice"].plan = "free"

\* A generate form whose tier or operation is none of the enumerated values.
InvalidForm(f) ==
    /\ f.phase = "generate"
    /\ f.level \notin Levels \/ f.category \notin Operations \cup {"all"}
\* C14: a generate request whose tier or operation is not one of the
\* enumerated values produces no exercise and leaves usage_count,
\* latest_exercises and latest_meta as they were, whatever the plan.
C14_InvalidRequestRejected ==
    [][\A s \in Accounts, f \in PostForms :
          (InvalidForm(f) /\ IndexPost(s, f.phase, f.level, f.category, f.nb_ops, f.pdf_columns)) =>
              /\ resp'.generated = 0
              /\ users'[s].usage_count = Usage(s)
              /\ latest_exercises' = latest_exercises
              /\ latest_meta' = latest_meta]_vars

\* can_use_plan is false for every tier.
Exhausted(u) == u.plan \in {"free", "twenty"} /\ \A t \in Levels : ~CanUse(u, t)
\* C15: GET / of an account whose plan is exhausted (a free account with all
\* five tiers used, a "twenty" account with total >= 20) is answered by the
\* redirection to /choose_plan, not by the generation form.
C15_ExhaustedRedirects ==
    [][\A a \in Accounts :
          (resp'.route = "index_get" /\ resp'.user = a /\ Exhausted(users[a])) =>
              resp'.outcome = "redirect:/choose_plan"]_vars

\* can_use_plan returns False for a and the tier.
Refused(a, level) ==
    /\ users[a].plan # NoPlan
    /\ can_use_plan(users[a], level).exc = "none"
    /\ ~CanUse(users[a], level)
\* C16: a generate request that can_use_plan refuses raises no fault, records
\* no usage, generates no exercise and leaves latest_exercises, latest_meta
\* and latest_result unchanged.
C16_RefusalHasNoEffect ==
    [][\A a \in Accounts :
          (PostBy(resp', a) /\ Refused(a, resp'.level)) =>
              /\ resp'.exc = "none"
              /\ resp'.outcome = "redirect:/"
              /\ resp'.tracked = 0
              /\ resp'.generated = 0
              /\ users'[a].usage_count = Usage(a)
              /\ users'[a].plan = users[a].plan
              /\ UNCHANGED globals]_vars

\* The second request for a used free tier was refused, and the exercises
\* of the first are still in place.
C16_Witness ==
    /\ PostBy(resp, "alice") /\ resp.auth = "False"
    /\ users["alice"].plan = "free"
    /\ Usage("alice")[resp.level] = 1
    /\ latest_exercises # NoneVal

\* The latest call generate_exercise(operation, tier) returned a dictionary.
Generated(operation) ==
    /\ call.fn = "generate_exercise"
    /\ call.operation = operation
    /\ call.level \in Levels
Within(x, range) == range[1] <= x /\ x <= range[2]

\* C17: for every tier, a subtraction exercise has low <= b <= a <= high for
\* the tier's range and result = a - b >= 0.
C17_SubtractionNonNegative ==
    Generated("subtraction") =>
        LET e == call.ret
            r == AddRange[call.level]
        IN  /\ call.exc = "none"
            /\ r[1] <= e.b /\ e.b <= e.a /\ e.a <= r[2]
            /\ e.result = e.a - e.b
            /\ e.result >= 0
            /\ e.op = "-"

\* The largest expert subtraction with b = a.
C17_Witness ==
    /\ Generated("subtraction") /\ call.level = "expert"
    /\ call.ret.a = AddRange["expert"][2]
    /\ call.ret.b = call.ret.a
    /\ call.ret.result = 0

\* C18: for every tier, a division exercise has a divisor b >= 1 within the
\* tier's divisor range, a = b * quotient with the quotient within the tier's
\* quotient range, and result = quotient; so a // b is defined and equals
\* the result.
C18_DivisionExact ==
    Generated("division") =>
        LET e == call.ret IN
        /\ call.exc = "none"
        /\ e.b >= 1
        /\ Within(e.b, DivisorRange[call.level])
        /\ Within(e.result, QuotientRange[call.level])
        /\ e.a = e.b * e.result
        /\ e.a \div e.b = e.result
        /\ e.op = "÷"

\* The largest expert division.
C18_Witness ==
    /\ Generated("division") /\ call.level = "expert"
    /\ call.ret.b = 100 /\ call.ret.result = 10000 /\ call.ret.a = 1000000

\* C19: for every tier, an addition exercise has both operands within the
\* tier's addition range and result = a + b; a multiplication exercise has
\* both operands within the tier's multiplication range, which is smaller
\* than the addition range, and result = a * b.
C19_AdditionMultiplication ==
    /\ Generated("addition") =>
          LET e == call.ret IN
          /\ call.exc = "none"
          /\ Within(e.a, AddRange[call.level]) /\ Within(e.b, AddRange[call.level])
          /\ e.result = e.a + e.b
          /\ e.op = "+"
    /\ Generated("multiplication") =>
          LET e == call.ret IN
          /\ call.exc = "none"
          /\ Within(e.a, MulRange[call.level]) /\ Within(e.b, MulRange[call.level])
          /\ e.result = e.a * e.b
          /\ e.op = "×"
          /\ MulRange[call.level][1] = AddRange[call.level][1]
          /\ MulRange[call.level][2] < AddRange[call.level][2]

\* The largest expert multiplication.
C19_Witness ==
    /\ Generated("multiplication") /\ call.level = "expert"
    /\ call.ret.a = 1000 /\ call.ret.b = 1000 /\ call.ret.result = 1000000
    /\ call.ret.res_len = 7

\* The latest /answers was graded: it came back with the feedback.
Graded(c) == c.fn = "answers_route" /\ c.outcome = "result"
\* The value recomputed from the submitted operands and operator.
Recomputed(e) ==
    CASE e.op = "+" -> e.a.val + e.b.val
      [] e.op = "-" -> e.a.val - e.b.val
      [] e.op \in {"*", "×"} -> e.a.val * e.b.val
      [] OTHER -> FloorDiv(e.a.val, e.b.val)
\* The submitted answer is an integer equal to the recomputed value.
AnswerIsRight(e) ==
    /\ e.op \in {"+", "-", "*", "×", "/", "÷"}
    /\ e.answer.present
    /\ ParseInt(e.answer.str).ok
    /\ ParseInt(e.answer.str).val = Recomputed(e)
\* Every item of the feedback is marked by the submitted entry alone, and the
\* score counts the items so marked.
C20_State ==
    Graded(call) =>
        LET form == call.form
            ops == {OpSeq(form.selected_category)[j] : j \in 1..Len(OpSeq(form.selected_category))}
            right == {<<op, i>> \in ops \X (1..1) : i <= Len(EntriesOf(form, op)) /\ AnswerIsRight(EntriesOf(form, op)[i])}
            asked == {<<op, i>> \in ops \X (1..1) : i <= Len(EntriesOf(form, op))}
        IN  /\ \A op \in ops : \A i \in 1..Len(EntriesOf(form, op)) :
                  call.feedback[op][i].correct <=> AnswerIsRight(EntriesOf(form, op)[i])
            /\ call.score = Score(Cardinality(right), Cardinality(asked))
\* The same form graded again gives the same feedback and score, whatever
\* latest_exercises holds by then.
C20_Step ==
    (Graded(call) /\ Graded(call') /\ call'.form = call.form) =>
        /\ call'.feedback = call.feedback
        /\ call'.score = call.score
\* C20: an exercise is marked correct iff the submitted answer is an integer
\* equal to the value recomputed from the submitted operands and operator
\* (a + b, a - b, a * b, a // b); the marking does not depend on the result
\* kept in latest_exercises; grading the same submission twice gives the
\* same feedback and score.
C20_GradingIsPure == [](C20_State) /\ [][C20_Step]_vars

\* 0 + 1 answered " 1" is marked correct while the exercise kept in
\* latest_exercises is 10 + 10 = 20.
C20_Witness ==
    /\ Graded(call)
    /\ call.form.selected_category = "addition"
    /\ call.form.entries["addition"][1] = Entry(GoodInt(0), GoodInt(1), "+", Field(<<" ", "1">>))
    /\ call.feedback["addition"][1].correct
    /\ call.score = 100
    /\ latest_exercises # NoneVal
    /\ "addition" \in DOMAIN latest_exercises
    /\ latest_exercises["addition"][1].result = 20

\* The submitted answer is absent, empty or blank, or no integer literal.
NoAnswer(field) == ~field.present \/ Strip(field.str) = <<>> \/ ~ParseInt(field.str).ok
\* The form's operands are integers and no division by 0 is asked for, and
\* the exercises in progress hold no None: nothing but the answer can fault.
Gradable(form) ==
    /\ latest_exercises # NoneVal /\ latest_meta # NoneVal
    /\ ~HoldsNone(latest_exercises)
    /\ \A op \in DOMAIN form.entries : \A i \in 1..Len(form.entries[op]) :
          LET e == form.entries[op][i] IN
          e.a.ok /\ e.b.ok /\ ~(e.op \in {"/", "÷"} /\ e.b.val = 0)
\* C21: an answer that is absent, empty or whitespace-only, or not a valid
\* integer literal is graded "Not answered": no error is raised, the item is
\* marked incorrect, and it counts in total_questions and not in
\* total_correct.
C21_NotAnswered ==
    [][(resp'.route = "answers" /\ resp'.user = "alice" /\ Gradable(call'.form)) =>
          /\ resp'.exc = "none" /\ resp'.outcome = "result"
          /\ Graded(call')
          /\ \A op \in DOMAIN call'.feedback : \A i \in 1..Len(EntriesOf(call'.form, op)) :
                NoAnswer(EntriesOf(call'.form, op)[i].answer) =>
                    /\ call'.feedback[op][i].verdict = "Not answered"
                    /\ ~call'.feedback[op][i].correct
                    /\ Len(call'.feedback[op]) = Len(EntriesOf(call'.form, op))
                    /\ (Len(call'.feedback[op]) = 1 /\ Cardinality(DOMAIN call'.feedback) = 1) =>
                          call'.score = 0]_vars

\* A whitespace-only answer, a junk answer and an absent one were each
\* graded "Not answered" with score 0.
C21_Witness ==
    /\ Graded(call)
    /\ call.form.selected_category = "addition"
    /\ call.form.entries["addition"][1].answer \in {Field(<<" ", " ">>), Field(<<"1", "x">>), Absent, Field(<<>>)}
    /\ call.feedback["addition"][1].verdict = "Not answered"
    /\ ~call.feedback["addition"][1].correct
    /\ call.score = 0

\* The exercises of the graded form and those of them graded correct.
TotalQuestions(c) == Len(EntriesOf(c.form, "addition"))
TotalCorrect(c) == Cardinality({i \in 1..Len(c.feedback["addition"]) : c.feedback["addition"][i].correct})
\* num / den >= 0 rounded to the nearest integer, a tie going up or to the
\* even integer.
RoundHalfUp(num, den) == (2 * num + den) \div (2 * den)
RoundHalfEven(num, den) ==
    LET q == num \div den
        r == num % den
    IN  IF 2 * r < den \/ (2 * r = den /\ q % 2 = 0) THEN q ELSE q + 1

\* C22: the score of answers_route is round(100 * total_correct /
\* total_questions), the nearest integer whichever way a tie is taken to go
\* (up, or to the even integer), an integer of 0..100; it is 0 for no
\* question, 100 when every exercise is correct and 25 for 1 correct of 4.
C22_ScoreIsRounded ==
    (Graded(call) /\ call.form.selected_category = "addition") =>
        /\ call.score \in 0..100
        /\ TotalQuestions(call) = 0 => call.score = 0
        /\ TotalQuestions(call) > 0 =>
              call.score \in {RoundHalfUp(100 * TotalCorrect(call), TotalQuestions(call)),
                              RoundHalfEven(100 * TotalCorrect(call), TotalQuestions(call))}
        /\ (TotalQuestions(call) > 0 /\ TotalCorrect(call) = TotalQuestions(call)) => call.score = 100
        /\ (TotalQuestions(call) = 4 /\ TotalCorrect(call) = 1) => call.score = 25

\* C23: round trip of generation and grading: for every operation and tier,
\* the form that sends back each generated exercise's operands and operator
\* with its result as the answer is graded without error, every exercise is
\* graded correct ("Well done") and the score is 100.
C23_RoundTrip ==
    [][TripAnswers("alice") =>
          /\ Graded(call') /\ resp'.exc = "none"
          /\ DOMAIN call'.feedback = DOMAIN latest_exercises
          /\ \A op \in DOMAIN latest_exercises :
                /\ Len(call'.feedback[op]) = Len(latest_exercises[op])
                /\ Len(latest_exercises[op]) > 0
                /\ \A i \in 1..Len(latest_exercises[op]) :
                      /\ call'.feedback[op][i].correct
                      /\ call'.feedback[op][i].verdict = "Well done"
                      /\ call'.feedback[op][i].answer = latest_exercises[op][i].result
          /\ call'.score = 100]_vars

\* The largest expert exercises of all four operations, sent back with their
\* results: the multiplication 1000 × 1000 answered "1000000" is graded
\* correct and the score is 100.
C23_Witness ==
    /\ Graded(call) /\ call.score = 100
    /\ latest_meta # NoneVal /\ latest_meta.level = "expert" /\ latest_meta.selected_category = "all"
    /\ call.form.entries["multiplication"][1].answer = Field(<<"1", "0", "0", "0", "0", "0", "0">>)
    /\ call.feedback["multiplication"][1].a = 1000 /\ call.feedback["multiplication"][1].b = 1000
    /\ call.feedback["multiplication"][1].correct
    /\ call.feedback["division"][1].op = "÷" /\ call.feedback["division"][1].correct

\* The step changes the plan, the plan_start or a counter of usage_count of
\* account a.
UsageAffected(a) ==
    \/ users'[a].plan # users[a].plan
    \/ users'[a].plan_start # users[a].plan_start
    \/ users'[a].usage_count # users[a].usage_count

\* C24: every request that changes an account's plan, plan_start or
\* usage_count calls save_users before it completes.  (load_users is called
\* once, where users is initialised; no handler calls it.)
C24_ChangeIsSaved ==
    [][(\E a \in Accounts : UsageAffected(a)) => drive'.called]_vars

\* C25: a persistence failure is swallowed: when save_users fails during
\* track_usage (Google Drive is down) of an authorized generate request, no
\* error reaches the request, which generates its exercises; the increment
\* stays in memory though users.json is left as it was, and it is what
\* can_use_plan reads afterwards (the free tier is used up).
C25_SaveFailureSwallowed ==
    [][(/\ PostBy(resp', "alice") /\ ~drive.up
        /\ users["alice"].plan \in {"free", "twenty"}
        /\ resp'.level \in Levels
        /\ CanUse(users["alice"], resp'.level)) =>
          /\ resp'.exc = "none" /\ resp'.outcome = "exercises" /\ resp'.generated > 0
          /\ latest_exercises' # NoneVal /\ latest_result' = NoneVal
          /\ drive'.called /\ drive'.file = drive.file
          /\ Usage("alice")[resp'.level] + 1 = users'["alice"].usage_count[resp'.level]
          /\ users["alice"].plan = "twenty" => Total(users'["alice"]) = Total(users["alice"]) + 1
          /\ users["alice"].plan = "free" => ~CanUse(users'["alice"], resp'.level)
          /\ drive'.file["alice"].usage_count # users'["alice"].usage_count]_vars

\* Drive is down, alice's free request for the first tier has generated
\* without an error, the tier is counted in memory and not in users.json.
C25_Witness ==
    /\ ~drive.up /\ drive.called
    /\ PostBy(resp, "alice") /\ resp.outcome = "exercises" /\ resp.exc = "none"
    /\ users["alice"].plan = "free"
    /\ Usage("alice")[LevelSeq[1]] = 1
    /\ drive.file["alice"].usage_count[LevelSeq[1]] = 0
    /\ ~CanUse(users["alice"], LevelSeq[1])

\* Account a has generated its exercises (on the free plan, once).
HasGenerated(a) == users[a].plan = "free" /\ Usage(a)[LevelOf(a)] = 1

\* C26: the latest exercises are in one slot shared by all accounts: when
\* alice has generated and bob has generated after her, the exercises and
\* solutions printed by alice's /generate_pdf, and the solution key built by
\* alice's /answers for the form of her own page, are those of bob's
\* exercises and not of hers.
C26_SharedSlot ==
    [][(HasGenerated("alice") /\ PostBy(resp, "bob") /\ resp.generated > 0) =>
          /\ (resp'.route = "generate_pdf" /\ resp'.user = "alice") =>
                /\ call'.outcome = "pdf"
                /\ call'.exercises = ExercisesOf("bob") /\ call'.exercises # ExercisesOf("alice")
                /\ call'.solutions = Solutions(ExercisesOf("bob"))
          /\ (resp'.route = "answers" /\ resp'.user = "alice") =>
                /\ Graded(call') /\ call'.form = OwnForm("alice") /\ call'.score = 100
                /\ latest_result'.exercises = ExercisesOf("bob")
                /\ latest_result'.solutions = Solutions(ExercisesOf("bob"))
                /\ latest_result'.solutions # Solutions(ExercisesOf("alice"))]_vars

\* Both have generated, alice has just been sent the PDF, and it holds bob's
\* exercises.
C26_Witness ==
    /\ HasGenerated("alice") /\ HasGenerated("bob")
    /\ resp.route = "generate_pdf" /\ resp.user = "alice" /\ resp.outcome = "pdf"
    /\ call.fn = "generate_pdf_route"
    /\ call.exercises = ExercisesOf("bob") /\ call.exercises # ExercisesOf("alice")
    /\ call.solutions["addition"][1].solution = 2 * AddRange[LevelOf("bob")][2]

\* The solution key is that of the exercises: the same categories, as many
\* entries, and each solution the result of its exercise.
KeyMatches(solutions, exercises) ==
    /\ DOMAIN solutions = DOMAIN exercises
    /\ \A cat \in DOMAIN exercises :
          /\ Len(solutions[cat]) = Len(exercises[cat])
          /\ \A i \in 1..Len(exercises[cat]) : solutions[cat][i].solution = exercises[cat][i].result

\* C27: whenever latest_result is set, its solution key matches its
\* exercises (for every category and index, solutions[cat][i].solution =
\* exercises[cat][i].result), and no PDF sent pairs the solutions of one
\* generation with the exercises of another, under every interleaving of
\* index_post, answers_route and generate_pdf_route.  (That exercises is the
\* current latest_exercises is left out: it fails between lines 1234 and
\* 1235 of any generation that follows a result.)
C27_ResultMatchesExercises ==
    /\ latest_result # NoneVal => KeyMatches(latest_result.solutions, latest_result.exercises)
    /\ (call.fn = "generate_pdf_route" /\ call.outcome = "pdf") => KeyMatches(call.solutions, call.exercises)


\* An activation of the monthly plan for account a is answered in this step.
MonthlyActivated(a) ==
    /\ resp' # resp
    /\ resp'.user = a
    /\ \/ resp'.route = "activate_key" /\ resp'.level = "monthly" /\ resp'.outcome = "redirect:/"
       \/ resp'.route = "paypal_success" /\ resp'.outcome = "flash:validated" /\ OrderPlan(resp'.level) = "monthly"

C28_State == \A a \in Accounts : users[a].plan = "monthly" => users[a].plan_start # NoStart

C28_Step ==
    \A a \in Accounts :
       /\ users'[a].plan = "monthly"
       /\ \/ users[a].plan # "monthly"
          \/ users'[a].plan_start # users[a].plan_start
          \/ MonthlyActivated(a)
       => users'[a].plan_start = now'

\* C28: in every state an account whose plan is "monthly" has a plan_start,
\* and it is the time of the account's latest monthly activation: whenever
\* an account becomes monthly, a monthly account's plan_start changes, or a
\* monthly activation is answered, plan_start is the current time.
C28_MonthlyHasStart == [](C28_State) /\ [][C28_Step]_vars


\* Thread t has completed a monthly activation, and no later request.
ActivationDone(t) ==
    /\ th[t].pc = "idle"
    /\ "at" \in DOMAIN th[t]
    /\ th[t].plan = "monthly"

\* C29: once a thread has completed update_activation_after_payment("monthly")
\* for an account at time T, and as long as no more than 30 days have passed
\* since T, the account has plan "monthly" and a plan_start of T or later,
\* whatever a concurrent GET / of the account does.
C29_ActivationKept ==
    \A t \in SlotThreads :
       ActivationDone(t) /\ now <= th[t].at + PlanDays
       => /\ users[th[t].user].plan = "monthly"
          /\ users[th[t].user].plan_start >= th[t].at


\* C30: when every order was created by alice (SpecOrders), no return to
\* /paypal_success, whoever's session it comes in, changes the plan of
\* another account.
C30_OrderActivatesItsCreator ==
    [][\A s \in PaySessions, token \in Tokens, success \in BOOLEAN :
          PaypalSuccess(s, token, success)
          => \A b \in Accounts \ {"alice"} : users'[b].plan = users[b].plan]_vars

====
